---- MODULE Spec2Model ----
(***************************************************************************)
(* container-data-collector: the traversal Context (context.py), the query *)
(* tree nodes (nodes.py) and the VectorPartial slot aggregator they use.   *)
(*                                                                         *)
(* Python values are modelled as follows.  Scalars (element values, group  *)
(* keys) are integers.  A container reference is the integer address of    *)
(* the container: the top-level container has address TopContainer, the    *)
(* leaf container reached by the key path <<k1, .., kn>> has address       *)
(* Addr(<<k1, .., kn>>).  `containers` maps the address of every existing  *)
(* leaf container to its content, a list of element tuples.  A raised      *)
(* exception is the field `exc` of the value an operation returns.         *)
(***************************************************************************)
EXTENDS Integers, Sequences, FiniteSets, TLC

VARIABLES
    n_elements,        \* Context.__init__ argument n_elements
    n_groups,          \* Context.__init__ argument n_groups
    element_inserter,  \* Context._element_inserter (a VectorPartial)
    group_factory,     \* Context._group_factory (a VectorPartial)
    containers,        \* address of a leaf container -> its list of tuples
    last,              \* the last operation: its arguments, result and call log
    calls,             \* number of operations made so far
    caller             \* what drives the Context: its plan and its progress

vars == <<n_elements, n_groups, element_inserter, group_factory, containers,
          last, calls, caller>>

(***************************************************************************)
(* Bounds.                                                                 *)
(***************************************************************************)
MaxElements == 2   \* n_elements ranges over 1..MaxElements
MaxGroups == 2     \* n_groups ranges over 0..MaxGroups
MaxValue == 2      \* element values and raw group keys range over 1..MaxValue
MaxCalls == 4      \* operations per behaviour
MaxRows == 2       \* logical rows fed per behaviour
MaxObj == 3        \* scalar objects handed to a node range over 1..MaxObj
MaxItems == 2      \* length of a list handed to a FromList node
MaxProcess == 3    \* process calls per behaviour on scalars and mappings
MaxLists == 1      \* process calls per behaviour on lists
MaxOps == 4        \* operations per behaviour on one VectorPartial
MaxArgs == 2       \* required positional parameters of a wrapped callable
MaxAttach == 2     \* attach calls per behaviour on one node
MaxAttached == 2   \* nodes handed to one attach call

Values == 1..MaxValue

(***************************************************************************)
(* Values.                                                                 *)
(***************************************************************************)
None == -1
TopContainer == 0

MaxKey == IF MaxValue > MaxObj THEN MaxValue ELSE MaxObj

\* str, the key projection of the tests: injective and never the identity.
str(x) == x + MaxKey

\* Keys range over 0..2 * MaxKey; a key k is the digit k + 1 of an address.
AddrBase == 2 * MaxKey + 2

\* The leaf container c.setdefault(k1, {}).setdefault(k2, []) .. of a key path.
RECURSIVE Addr(_)
Addr(path) ==
    IF path = <<>> THEN TopContainer
    ELSE Addr(SubSeq(path, 1, Len(path) - 1)) * AddrBase + path[Len(path)] + 1

(***************************************************************************)
(* VectorPartial: N positional slots and a filled bit per slot.            *)
(***************************************************************************)
VectorPartial(n) ==
    [n_args |-> n,
     args |-> [i \in 1..n |-> None],
     filled |-> [i \in 1..n |-> FALSE]]

\* A slip: a defaulted positional parameter is not counted.
VectorPartial_init_required_only(f, n_args) ==
    IF n_args < 1 THEN [vp |-> VectorPartial(0), exc |-> "IndexError"]
    ELSE IF f.kwonly > 0 THEN [vp |-> VectorPartial(0), exc |-> "TypeError"]
    ELSE IF f.args = 0 /\ n_args = 1
    THEN [vp |-> VectorPartial(0), exc |-> "TypeError"]
    ELSE IF n_args = f.args \/ (f.varargs /\ n_args >= f.args)
    THEN [vp |-> VectorPartial(n_args), exc |-> "none"]
    ELSE [vp |-> VectorPartial(0), exc |-> "TypeError"]

\* A slip: a callable without a required positional parameter is accepted
\* whenever its named positional parameters or its capture fit n_args.
VectorPartial_init_no_required(f, n_args) ==
    IF n_args < 1 THEN [vp |-> VectorPartial(0), exc |-> "IndexError"]
    ELSE IF f.kwonly > 0 THEN [vp |-> VectorPartial(0), exc |-> "TypeError"]
    ELSE IF n_args = f.args + f.defaults
            \/ (f.varargs /\ n_args >= f.args + f.defaults)
    THEN [vp |-> VectorPartial(n_args), exc |-> "none"]
    ELSE [vp |-> VectorPartial(0), exc |-> "TypeError"]

\* VectorPartial(f, n_args=n_args).  f is the signature of the callable, as
\* gen_func of the tests builds it: the numbers of required and of defaulted
\* positional parameters, of required and of defaulted keyword-only
\* parameters, and whether it has *args and **kwargs.  With n_args = 1 a
\* callable without a required positional parameter is refused
\* (test_func_without_non_default_args).
VectorPartial_init(f, n_args) ==
    IF n_args < 1 THEN [vp |-> VectorPartial(0), exc |-> "IndexError"]
    ELSE IF f.kwonly > 0 THEN [vp |-> VectorPartial(0), exc |-> "TypeError"]
    ELSE IF f.args = 0 /\ n_args = 1
    THEN [vp |-> VectorPartial(0), exc |-> "TypeError"]
    ELSE IF n_args = f.args + f.defaults
            \/ (f.varargs /\ n_args >= f.args + f.defaults)
    THEN [vp |-> VectorPartial(n_args), exc |-> "none"]
    ELSE [vp |-> VectorPartial(0), exc |-> "TypeError"]

\* A slip: the slots counted are those that never received a value.
missing_args_never_set(vp) ==
    Cardinality({i \in 1..vp.n_args : vp.args[i] = None})

missing_args(vp) == Cardinality({i \in 1..vp.n_args : ~vp.filled[i]})

can_return(vp) == missing_args(vp) = 0

\* A slip: a negative position counts from the last slot, as a list index.
insert_from_end(vp, value, pos) ==
    IF pos \in 1..vp.n_args
    THEN [vp |-> [vp EXCEPT !.args[pos] = value, !.filled[pos] = TRUE],
          exc |-> "none"]
    ELSE IF -pos \in 1..vp.n_args
    THEN [vp |-> [vp EXCEPT !.args[vp.n_args + 1 + pos] = value,
                            !.filled[vp.n_args + 1 + pos] = TRUE],
          exc |-> "none"]
    ELSE [vp |-> vp, exc |-> "IndexError"]

\* A slip: a slot that is already filled keeps its first value.
insert_keeps_first(vp, value, pos) ==
    IF pos \notin 1..vp.n_args THEN [vp |-> vp, exc |-> "IndexError"]
    ELSE IF vp.filled[pos] THEN [vp |-> vp, exc |-> "none"]
    ELSE [vp |-> [vp EXCEPT !.args[pos] = value, !.filled[pos] = TRUE],
          exc |-> "none"]

insert(vp, value, pos) ==
    IF pos \notin 1..vp.n_args THEN [vp |-> vp, exc |-> "IndexError"]
    ELSE [vp |-> [vp EXCEPT !.args[pos] = value, !.filled[pos] = TRUE],
          exc |-> "none"]

\* A slip: a remove unfills every slot.
remove_unfills_all(vp, pos) ==
    IF pos \notin 1..vp.n_args THEN [vp |-> vp, exc |-> "IndexError"]
    ELSE [vp |-> [vp EXCEPT !.filled = [i \in 1..vp.n_args |-> FALSE]],
          exc |-> "none"]

remove(vp, pos) ==
    IF pos \notin 1..vp.n_args THEN [vp |-> vp, exc |-> "IndexError"]
    ELSE [vp |-> [vp EXCEPT !.filled[pos] = FALSE], exc |-> "none"]

\* A slip: the callable is invoked with whatever the slots hold.
call_unready(vp) == [args |-> vp.args, exc |-> "none"]

\* A slip: the slot values are handed over last position first.
call_reversed(vp) ==
    IF ~can_return(vp) THEN [args |-> <<>>, exc |-> "RuntimeError"]
    ELSE [args |-> [i \in 1..vp.n_args |-> vp.args[vp.n_args + 1 - i]],
          exc |-> "none"]

\* __call__: the positional arguments handed to the wrapped callable.
call(vp) ==
    IF ~can_return(vp) THEN [args |-> <<>>, exc |-> "RuntimeError"]
    ELSE [args |-> vp.args, exc |-> "none"]

(***************************************************************************)
(* The wrapped callables of the tests.                                     *)
(***************************************************************************)
\* list_append_2(c, e1, e2): c.append((e1, e2)); returns None.
inserter(heap, args) ==
    [heap EXCEPT ![args[1]] = Append(@, SubSeq(args, 2, Len(args)))]

\* lambda c, k1, k2: c.setdefault(k1, {}).setdefault(k2, [])
factory(heap, args) ==
    LET a == Addr(SubSeq(args, 2, Len(args)))
    IN  [heap |-> IF a \in DOMAIN heap THEN heap ELSE heap @@ (a :> <<>>),
         ret |-> a]

(***************************************************************************)
(* Context.                                                                *)
(***************************************************************************)
Call(f, args, ret) == [f |-> f, args |-> args, ret |-> ret]

\* The calls of f in a log.
Events(log, f) == SelectSeq(log, LAMBDA ev : ev.f = f)

\* A slip: the top container is bound into the group factory whatever n_groups.
Context_binds_factory(ne, ng) ==
    [element_inserter |-> VectorPartial(ne + 1),
     group_factory |-> insert(VectorPartial(ng + 1), TopContainer, 1).vp,
     containers |-> IF ng = 0 THEN (TopContainer :> <<>>) ELSE <<>>,
     log |-> <<>>,
     exc |-> "none"]

\* Context.__init__
Context(ne, ng) ==
    [element_inserter |->
        IF ng = 0 THEN insert(VectorPartial(ne + 1), TopContainer, 1).vp
        ELSE VectorPartial(ne + 1),
     group_factory |->
        IF ng = 0 THEN VectorPartial(ng + 1)
        ELSE insert(VectorPartial(ng + 1), TopContainer, 1).vp,
     containers |-> IF ng = 0 THEN (TopContainer :> <<>>) ELSE <<>>,
     log |-> <<>>,
     exc |-> "none"]

\* A slip: position 0 is let through to the aggregator.
check_pos_allows_zero(pos) == "none"

\* Context._check_pos
check_pos(pos) == IF pos = 0 THEN "ValueError" ELSE "none"

\* A slip: after the inserter is invoked the first element slot is removed,
\* not the triggering one.
apply_element_clears_first(c, e, pos) ==
    IF check_pos(pos) # "none" THEN [c EXCEPT !.exc = check_pos(pos)]
    ELSE LET ins == insert(c.element_inserter, e, pos + 1) IN
    IF ins.exc # "none" THEN [c EXCEPT !.exc = ins.exc]
    ELSE IF ~can_return(ins.vp) THEN [c EXCEPT !.element_inserter = ins.vp]
    ELSE LET r == call(ins.vp)
             rm == remove(ins.vp, 2)
         IN  [c EXCEPT !.element_inserter = rm.vp,
                       !.containers = inserter(@, r.args),
                       !.log = Append(@, Call("inserter", r.args, None)),
                       !.exc = rm.exc]

\* A slip: the triggering slot is left filled after the inserter is invoked.
apply_element_keeps_slot(c, e, pos) ==
    IF check_pos(pos) # "none" THEN [c EXCEPT !.exc = check_pos(pos)]
    ELSE LET ins == insert(c.element_inserter, e, pos + 1) IN
    IF ins.exc # "none" THEN [c EXCEPT !.exc = ins.exc]
    ELSE IF ~can_return(ins.vp) THEN [c EXCEPT !.element_inserter = ins.vp]
    ELSE LET r == call(ins.vp)
         IN  [c EXCEPT !.element_inserter = ins.vp,
                       !.containers = inserter(@, r.args),
                       !.log = Append(@, Call("inserter", r.args, None))]

\* A slip: the inserter is invoked whether or not it can return.
apply_element_always_invokes(c, e, pos) ==
    IF check_pos(pos) # "none" THEN [c EXCEPT !.exc = check_pos(pos)]
    ELSE LET ins == insert(c.element_inserter, e, pos + 1) IN
    IF ins.exc # "none" THEN [c EXCEPT !.exc = ins.exc]
    ELSE LET r == call(ins.vp)
             rm == remove(ins.vp, pos + 1)
         IN  IF r.exc # "none"
             THEN [c EXCEPT !.element_inserter = ins.vp, !.exc = r.exc]
             ELSE [c EXCEPT !.element_inserter = rm.vp,
                            !.containers = inserter(@, r.args),
                            !.log = Append(@, Call("inserter", r.args, None)),
                            !.exc = rm.exc]

\* Context.apply_element
apply_element(c, e, pos) ==
    IF check_pos(pos) # "none" THEN [c EXCEPT !.exc = check_pos(pos)]
    ELSE LET ins == insert(c.element_inserter, e, pos + 1) IN
    IF ins.exc # "none" THEN [c EXCEPT !.exc = ins.exc]
    ELSE IF ~can_return(ins.vp) THEN [c EXCEPT !.element_inserter = ins.vp]
    ELSE LET r == call(ins.vp)
             rm == remove(ins.vp, pos + 1)
         IN  [c EXCEPT !.element_inserter = rm.vp,
                       !.containers = inserter(@, r.args),
                       !.log = Append(@, Call("inserter", r.args, None)),
                       !.exc = rm.exc]

\* A slip: the new container is not bound into the element inserter.
create_group_no_rebind(c, key, pos) ==
    IF check_pos(pos) # "none" THEN [c EXCEPT !.exc = check_pos(pos)]
    ELSE LET ins == insert(c.group_factory, key, pos + 1) IN
    IF ins.exc # "none" THEN [c EXCEPT !.exc = ins.exc]
    ELSE IF ~can_return(ins.vp) THEN [c EXCEPT !.group_factory = ins.vp]
    ELSE LET r == call(ins.vp)
             made == factory(c.containers, r.args)
             rm == remove(ins.vp, pos + 1)
         IN  [c EXCEPT !.group_factory = rm.vp,
                       !.containers = made.heap,
                       !.log = Append(@, Call("group_factory", r.args, made.ret)),
                       !.exc = rm.exc]

\* A slip: the key, not the container made for it, is bound into the inserter.
create_group_binds_key(c, key, pos) ==
    IF check_pos(pos) # "none" THEN [c EXCEPT !.exc = check_pos(pos)]
    ELSE LET ins == insert(c.group_factory, key, pos + 1) IN
    IF ins.exc # "none" THEN [c EXCEPT !.exc = ins.exc]
    ELSE IF ~can_return(ins.vp) THEN [c EXCEPT !.group_factory = ins.vp]
    ELSE LET r == call(ins.vp)
             made == factory(c.containers, r.args)
             rm == remove(ins.vp, pos + 1)
             bound == insert(c.element_inserter, key, 1)
         IN  [c EXCEPT !.group_factory = rm.vp,
                       !.containers = made.heap,
                       !.element_inserter = bound.vp,
                       !.log = Append(@, Call("group_factory", r.args, made.ret)),
                       !.exc = IF rm.exc # "none" THEN rm.exc ELSE bound.exc]

\* A slip: an inserter made ready by the new container is invoked at once.
create_group_invokes_ready(c, key, pos) ==
    IF check_pos(pos) # "none" THEN [c EXCEPT !.exc = check_pos(pos)]
    ELSE LET ins == insert(c.group_factory, key, pos + 1) IN
    IF ins.exc # "none" THEN [c EXCEPT !.exc = ins.exc]
    ELSE IF ~can_return(ins.vp) THEN [c EXCEPT !.group_factory = ins.vp]
    ELSE LET r == call(ins.vp)
             made == factory(c.containers, r.args)
             rm == remove(ins.vp, pos + 1)
             bound == insert(c.element_inserter, made.ret, 1)
             fire == can_return(bound.vp)
             given == call(bound.vp)
             made_log == Append(c.log, Call("group_factory", r.args, made.ret))
         IN  [c EXCEPT !.group_factory = rm.vp,
                       !.containers = IF fire THEN inserter(made.heap, given.args)
                                      ELSE made.heap,
                       !.element_inserter = bound.vp,
                       !.log = IF fire
                               THEN Append(made_log,
                                           Call("inserter", given.args, None))
                               ELSE made_log,
                       !.exc = IF rm.exc # "none" THEN rm.exc ELSE bound.exc]

\* Context.create_group
create_group(c, key, pos) ==
    IF check_pos(pos) # "none" THEN [c EXCEPT !.exc = check_pos(pos)]
    ELSE LET ins == insert(c.group_factory, key, pos + 1) IN
    IF ins.exc # "none" THEN [c EXCEPT !.exc = ins.exc]
    ELSE IF ~can_return(ins.vp) THEN [c EXCEPT !.group_factory = ins.vp]
    ELSE LET r == call(ins.vp)
             made == factory(c.containers, r.args)
             rm == remove(ins.vp, pos + 1)
             bound == insert(c.element_inserter, made.ret, 1)
         IN  [c EXCEPT !.group_factory = rm.vp,
                       !.containers = made.heap,
                       !.element_inserter = bound.vp,
                       !.log = Append(@, Call("group_factory", r.args, made.ret)),
                       !.exc = IF rm.exc # "none" THEN rm.exc ELSE bound.exc]

(***************************************************************************)
(* Nodes of the query tree (nodes.py).  A node is a record; an optional    *)
(* attribute (next_node, any_of, validator, invalidator, key) is a         *)
(* sequence of length 0 (not set) or 1.  A predicate callable is the set   *)
(* of values it returns True for; a projection callable is named.          *)
(* process threads the Context through the call tree and appends to its    *)
(* log every process call, every return and every Context method call.     *)
(***************************************************************************)
SUCCESS == 1
REJECT == 2

PseudoRoot(id, next_nodes) ==
    [kind |-> "PseudoRoot", id |-> id, next_nodes |-> next_nodes]
Element(id, pos, next_node) ==
    [kind |-> "Element", id |-> id, pos |-> pos, next_node |-> next_node]
Group(id, level, fct, next_node) ==
    [kind |-> "Group", id |-> id, level |-> level, factory |-> fct,
     next_node |-> next_node]
Include(id, any_of, validator) ==
    [kind |-> "Include", id |-> id, any_of |-> any_of, validator |-> validator]
Exclude(id, any_of, invalidator) ==
    [kind |-> "Exclude", id |-> id, any_of |-> any_of,
     invalidator |-> invalidator]
At(id, key, next_nodes) ==
    [kind |-> "At", id |-> id, key |-> <<key>>, next_nodes |-> next_nodes]
FromList(id, key, next_nodes) ==
    [kind |-> "FromList", id |-> id, key |-> key, next_nodes |-> next_nodes]

\* The __init__ a dataclass generates: the fields are stored as given.
new_Element(id, pos) == [node |-> <<Element(id, pos, <<>>)>>, exc |-> "none"]
new_Group(id, level, fct) ==
    [node |-> <<Group(id, level, fct, <<>>)>>, exc |-> "none"]

\* attach of PseudoRoot, At and FromList: self.next_nodes.extend(args)
attach_next_nodes(node, args) ==
    [node |-> [node EXCEPT !.next_nodes = @ \o args], exc |-> "none"]

\* A slip: more than one node is accepted and the first one is kept.
attach_next_node_takes_first(node, args) ==
    IF Len(args) = 0 THEN [node |-> node, exc |-> "ValueError"]
    ELSE [node |-> [node EXCEPT !.next_node = <<args[1]>>], exc |-> "none"]

\* attach of Element and Group
attach_next_node(node, args) ==
    IF Len(args) # 1 THEN [node |-> node, exc |-> "ValueError"]
    ELSE [node |-> [node EXCEPT !.next_node = <<args[1]>>], exc |-> "none"]

\* attach of Include and Exclude
attach_leaf(node, args) == [node |-> node, exc |-> "NotImplementedError"]

\* node.attach(*args)
attach(node, args) ==
    CASE node.kind \in {"PseudoRoot", "At", "FromList"} ->
            attach_next_nodes(node, args)
      [] node.kind \in {"Element", "Group"} -> attach_next_node(node, args)
      [] node.kind \in {"Include", "Exclude"} -> attach_leaf(node, args)

\* What a process call hands back: the Context and the State returned
\* (None when an exception left the call: then c.exc names it).
Result(c, state) == [c |-> c, state |-> state]

Logged(c, f, args, ret) == [c EXCEPT !.log = Append(@, Call(f, args, ret))]

\* obj[key]
getitem(obj, key) ==
    IF key \in DOMAIN obj THEN [value |-> obj[key], exc |-> "none"]
    ELSE [value |-> None, exc |-> "KeyError"]

\* self.factory(obj)
project(fct, obj) == IF fct = "str" THEN str(obj) ELSE obj

RECURSIVE process(_, _, _)

\* A slip: the loop goes on after a REJECT and returns the last child's State.
RECURSIVE process_next_nodes_goes_on(_, _, _)
process_next_nodes_goes_on(nodes, obj, c) ==
    IF nodes = <<>> THEN Result(c, SUCCESS)
    ELSE LET r == process(Head(nodes), obj, c) IN
         IF r.c.exc # "none" \/ Len(nodes) = 1 THEN r
         ELSE process_next_nodes_goes_on(Tail(nodes), obj, r.c)

\* A slip: on a REJECT the Context is put back as it was before the loop.
RECURSIVE process_next_nodes_rolls_back(_, _, _)
process_next_nodes_rolls_back(nodes, obj, c) ==
    IF nodes = <<>> THEN Result(c, SUCCESS)
    ELSE LET r == process(Head(nodes), obj, c) IN
         IF r.c.exc # "none" THEN r
         ELSE IF r.state = REJECT
         THEN Result([c EXCEPT !.log = r.c.log], REJECT)
         ELSE LET rest == process_next_nodes_rolls_back(Tail(nodes), obj, r.c)
              IN  IF rest.c.exc = "none" /\ rest.state = REJECT
                  THEN Result([c EXCEPT !.log = rest.c.log], REJECT)
                  ELSE rest

\* The loop of PseudoRoot.process and At.process: stop at the first REJECT.
RECURSIVE process_next_nodes(_, _, _)
process_next_nodes(nodes, obj, c) ==
    IF nodes = <<>> THEN Result(c, SUCCESS)
    ELSE LET r == process(Head(nodes), obj, c) IN
         IF r.c.exc # "none" \/ r.state = REJECT THEN r
         ELSE process_next_nodes(Tail(nodes), obj, r.c)

process_PseudoRoot(node, obj, c) == process_next_nodes(node.next_nodes, obj, c)

\* A slip: the filter's REJECT is returned only after the element is applied.
process_Element_applies_first(node, obj, c) ==
    LET r == IF node.next_node # <<>> THEN process(node.next_node[1], obj, c)
             ELSE Result(c, SUCCESS)
    IN  IF r.c.exc # "none" THEN r
        ELSE LET c1 == apply_element(
                          Logged(r.c, "apply_element", <<obj, node.pos>>, None),
                          obj, node.pos)
             IN  Result(c1, IF c1.exc # "none" THEN None ELSE r.state)

process_Element(node, obj, c) ==
    LET r == IF node.next_node # <<>> THEN process(node.next_node[1], obj, c)
             ELSE Result(c, SUCCESS)
    IN  IF r.c.exc # "none" \/ r.state = REJECT THEN r
        ELSE LET c1 == apply_element(
                          Logged(r.c, "apply_element", <<obj, node.pos>>, None),
                          obj, node.pos)
             IN  Result(c1, IF c1.exc # "none" THEN None ELSE SUCCESS)

\* A slip: the filter sees the projected key, create_group the raw value.
process_Group_raw_key(node, obj, c) ==
    LET key == IF node.factory # "none" THEN project(node.factory, obj) ELSE obj
        r == IF node.next_node # <<>> THEN process(node.next_node[1], key, c)
             ELSE Result(c, SUCCESS)
    IN  IF r.c.exc # "none" \/ r.state = REJECT THEN r
        ELSE LET c1 == create_group(
                          Logged(r.c, "create_group", <<obj, node.level>>, None),
                          obj, node.level)
             IN  Result(c1, IF c1.exc # "none" THEN None ELSE SUCCESS)

process_Group(node, obj, c) ==
    LET key == IF node.factory # "none" THEN project(node.factory, obj) ELSE obj
        r == IF node.next_node # <<>> THEN process(node.next_node[1], key, c)
             ELSE Result(c, SUCCESS)
    IN  IF r.c.exc # "none" \/ r.state = REJECT THEN r
        ELSE LET c1 == create_group(
                          Logged(r.c, "create_group", <<key, node.level>>, None),
                          key, node.level)
             IN  Result(c1, IF c1.exc # "none" THEN None ELSE SUCCESS)

\* A slip: the validator is consulted only when any_of is not set.
process_Include_skips_validator(node, obj, c) ==
    IF node.any_of # <<>>
    THEN Result(c, IF obj \notin node.any_of[1] THEN REJECT ELSE SUCCESS)
    ELSE IF node.validator # <<>> /\ ~(obj \in node.validator[1])
         THEN Result(c, REJECT)
    ELSE Result(c, SUCCESS)

process_Include(node, obj, c) ==
    IF node.any_of # <<>> /\ obj \notin node.any_of[1] THEN Result(c, REJECT)
    ELSE IF node.validator # <<>> /\ ~(obj \in node.validator[1])
         THEN Result(c, REJECT)
    ELSE Result(c, SUCCESS)

\* A slip: the invalidator is consulted only when any_of is not set.
process_Exclude_skips_invalidator(node, obj, c) ==
    IF node.any_of # <<>>
    THEN Result(c, IF obj \in node.any_of[1] THEN REJECT ELSE SUCCESS)
    ELSE IF node.invalidator # <<>> /\ obj \in node.invalidator[1]
         THEN Result(c, REJECT)
    ELSE Result(c, SUCCESS)

process_Exclude(node, obj, c) ==
    IF node.any_of # <<>> /\ obj \in node.any_of[1] THEN Result(c, REJECT)
    ELSE IF node.invalidator # <<>> /\ obj \in node.invalidator[1]
         THEN Result(c, REJECT)
    ELSE Result(c, SUCCESS)

\* A slip: a missing key is answered with REJECT instead of an exception.
process_At_rejects_missing(node, obj, c) ==
    LET got == getitem(obj, node.key[1]) IN
    IF got.exc # "none" THEN Result(c, REJECT)
    ELSE process_next_nodes(node.next_nodes, got.value, c)

process_At(node, obj, c) ==
    LET got == getitem(obj, node.key[1]) IN
    IF got.exc # "none" THEN Result([c EXCEPT !.exc = got.exc], None)
    ELSE process_next_nodes(node.next_nodes, got.value, c)

\* A slip: a REJECT ends the inner loop, as it does in At.process.
RECURSIVE process_discarding_stops(_, _, _)
process_discarding_stops(nodes, value, c) ==
    IF nodes = <<>> THEN c
    ELSE LET r == process(Head(nodes), value, c) IN
         IF r.c.exc # "none" \/ r.state = REJECT THEN r.c
         ELSE process_discarding_stops(Tail(nodes), value, r.c)

\* The inner loop of FromList.process: every child, its State discarded.
RECURSIVE process_discarding(_, _, _)
process_discarding(nodes, value, c) ==
    IF nodes = <<>> THEN c
    ELSE LET r == process(Head(nodes), value, c) IN
         IF r.c.exc # "none" THEN r.c
         ELSE process_discarding(Tail(nodes), value, r.c)

\* A slip: the loops are interchanged: every child in turn is handed the
\* whole sequence.
RECURSIVE process_values_by_child(_, _, _)
process_values_by_child(values, nodes, c) ==
    IF values = <<>> \/ nodes = <<>> THEN c
    ELSE IF Len(nodes) = 1
    THEN LET c1 == process_discarding(nodes, Head(values), c) IN
         IF c1.exc # "none" THEN c1
         ELSE process_values_by_child(Tail(values), nodes, c1)
    ELSE LET c1 == process_values_by_child(values, <<Head(nodes)>>, c) IN
         IF c1.exc # "none" THEN c1
         ELSE process_values_by_child(values, Tail(nodes), c1)

\* A slip: only the first value of the sequence is handed to the children.
process_values_first_only(values, nodes, c) ==
    IF values = <<>> THEN c
    ELSE process_discarding(nodes, Head(values), c)

\* The outer loop of FromList.process: every value of the sequence.
RECURSIVE process_values(_, _, _)
process_values(values, nodes, c) ==
    IF values = <<>> THEN c
    ELSE LET c1 == process_discarding(nodes, Head(values), c) IN
         IF c1.exc # "none" THEN c1
         ELSE process_values(Tail(values), nodes, c1)

\* A lookup obj[self.key] that returned a value is entered in the log.
process_FromList(node, obj, c) ==
    LET got == IF node.key # <<>> THEN getitem(obj, node.key[1])
               ELSE [value |-> obj, exc |-> "none"]
        looked == IF node.key # <<>>
                  THEN Logged(c, "getitem", <<node.id, node.key[1]>>, None)
                  ELSE c
    IN  IF got.exc # "none" THEN Result([c EXCEPT !.exc = got.exc], None)
        ELSE LET c1 == process_values(got.value, node.next_nodes, looked)
             IN  Result(c1, IF c1.exc # "none" THEN None ELSE SUCCESS)

\* node.process(obj, context), dispatched on the node's class.
process(node, obj, c) ==
    LET entered == Logged(c, "process", <<node.id, obj>>, None)
        r == CASE node.kind = "PseudoRoot" -> process_PseudoRoot(node, obj, entered)
               [] node.kind = "Element" -> process_Element(node, obj, entered)
               [] node.kind = "Group" -> process_Group(node, obj, entered)
               [] node.kind = "Include" -> process_Include(node, obj, entered)
               [] node.kind = "Exclude" -> process_Exclude(node, obj, entered)
               [] node.kind = "At" -> process_At(node, obj, entered)
               [] node.kind = "FromList" -> process_FromList(node, obj, entered)
    IN  IF r.c.exc # "none" THEN r
        ELSE Result(Logged(r.c, "return", <<node.id>>, r.state), r.state)

(***************************************************************************)
(* The Context as a state machine: any caller, any positions.              *)
(***************************************************************************)
\* The Context held in the variables, with an empty call log.
Ctx ==
    [element_inserter |-> element_inserter,
     group_factory |-> group_factory,
     containers |-> containers,
     log |-> <<>>,
     exc |-> "none"]

Store(c) ==
    /\ element_inserter' = c.element_inserter
    /\ group_factory' = c.group_factory
    /\ containers' = c.containers

Positions == -1..(MaxElements + 1)

Init ==
    /\ n_elements \in 1..MaxElements
    /\ n_groups \in 0..MaxGroups
    /\ element_inserter = Context(n_elements, n_groups).element_inserter
    /\ group_factory = Context(n_elements, n_groups).group_factory
    /\ containers = Context(n_elements, n_groups).containers
    /\ last = [op |-> "init", value |-> None, pos |-> 0, exc |-> "none",
               log |-> <<>>]
    /\ calls = 0
    /\ caller = [kind |-> "any"]

ApplyElement ==
    /\ calls < MaxCalls
    /\ \E e \in Values, pos \in Positions :
         LET c == apply_element(Ctx, e, pos) IN
         /\ Store(c)
         /\ last' = [op |-> "apply_element", value |-> e, pos |-> pos,
                     exc |-> c.exc, log |-> c.log]
    /\ calls' = calls + 1
    /\ UNCHANGED <<n_elements, n_groups, caller>>

CreateGroup ==
    /\ calls < MaxCalls
    /\ \E key \in Values, pos \in Positions :
         LET c == create_group(Ctx, key, pos) IN
         /\ Store(c)
         /\ last' = [op |-> "create_group", value |-> key, pos |-> pos,
                     exc |-> c.exc, log |-> c.log]
    /\ calls' = calls + 1
    /\ UNCHANGED <<n_elements, n_groups, caller>>

Next == ApplyElement \/ CreateGroup

Spec == Init /\ [][Next]_vars

(***************************************************************************)
(* The Context fed row by row, as test_context_with_groups feeds it: every *)
(* row supplies each group level and each element position once, in the    *)
(* order fixed by caller.order.                                            *)
(***************************************************************************)
Field(kind, pos) == [kind |-> kind, pos |-> pos]

Fields(ne, ng) ==
    {Field("group", i) : i \in 1..ng} \cup {Field("element", i) : i \in 1..ne}

\* Every order in which one row can supply its fields.
Orders(ne, ng) ==
    {o \in [1..(ne + ng) -> Fields(ne, ng)] :
        \A i, j \in 1..(ne + ng) : i # j => o[i] # o[j]}

EmptyRow(ne, ng) ==
    [keys |-> [i \in 1..ng |-> None], elems |-> [i \in 1..ne |-> None]]

\* The nested-loop reference of the tests: for every row, in row order,
\* inner = answer.setdefault(k1, {}).setdefault(k2, []) and then
\* inserter(inner, e1, e2).
RECURSIVE Reference(_, _)
Reference(heap, rows) ==
    IF rows = <<>> THEN heap
    ELSE LET row == Head(rows)
             inner == factory(heap, <<TopContainer>> \o row.keys)
         IN  Reference(inserter(inner.heap, <<inner.ret>> \o row.elems),
                       Tail(rows))

InitRows ==
    /\ n_elements \in 1..MaxElements
    /\ n_groups \in 0..MaxGroups
    /\ element_inserter = Context(n_elements, n_groups).element_inserter
    /\ group_factory = Context(n_elements, n_groups).group_factory
    /\ containers = Context(n_elements, n_groups).containers
    /\ last = [op |-> "init", value |-> None, pos |-> 0, exc |-> "none",
               log |-> <<>>]
    /\ calls = 0
    /\ \E o \in Orders(n_elements, n_groups) :
         caller = [kind |-> "rows", order |-> o, at |-> 1,
                   row |-> EmptyRow(n_elements, n_groups), rows |-> <<>>]

\* The next field of the current row is supplied to the Context.
FeedField ==
    /\ Len(caller.rows) < MaxRows
    /\ \E v \in Values :
         LET f == caller.order[caller.at]
             c == IF f.kind = "group" THEN create_group(Ctx, v, f.pos)
                  ELSE apply_element(Ctx, v, f.pos)
             row == IF f.kind = "group"
                    THEN [caller.row EXCEPT !.keys[f.pos] = v]
                    ELSE [caller.row EXCEPT !.elems[f.pos] = v]
             done == caller.at = Len(caller.order)
         IN  /\ Store(c)
             /\ last' = [op |-> IF f.kind = "group" THEN "create_group"
                                ELSE "apply_element",
                         value |-> v, pos |-> f.pos, exc |-> c.exc,
                         log |-> c.log]
             /\ caller' = [caller EXCEPT
                    !.at = IF done THEN 1 ELSE @ + 1,
                    !.row = IF done THEN EmptyRow(n_elements, n_groups) ELSE row,
                    !.rows = IF done THEN Append(@, row) ELSE @]
    /\ calls' = calls + 1
    /\ UNCHANGED <<n_elements, n_groups>>

NextRows == FeedField

SpecRows == InitRows /\ [][NextRows]_vars

(***************************************************************************)
(* The Context fed row by row with the element order chosen anew for every *)
(* row: a row supplies its group keys in level order and then each element *)
(* position once, in the order the row picked.  caller remembers, for every *)
(* element position, the row that applied it last (src), the number of      *)
(* inserter invocations (fired), the rows completed (done) and the position *)
(* each row so far applied last (lasts).                                    *)
(***************************************************************************)
ElementOrders(ne) ==
    {o \in [1..ne -> 1..ne] : \A i, j \in 1..ne : i # j => o[i] # o[j]}

InitShuffled ==
    /\ n_elements \in 1..MaxElements
    /\ n_groups \in 0..MaxGroups
    /\ element_inserter = Context(n_elements, n_groups).element_inserter
    /\ group_factory = Context(n_elements, n_groups).group_factory
    /\ containers = Context(n_elements, n_groups).containers
    /\ last = [op |-> "init", value |-> None, pos |-> 0, exc |-> "none",
               log |-> <<>>]
    /\ calls = 0
    /\ caller = [kind |-> "shuffled", order |-> [i \in 1..n_elements |-> i],
                 val |-> 1, at |-> 1, done |-> 0,
                 src |-> [i \in 1..n_elements |-> 0], fired |-> 0,
                 lasts |-> {}]

\* The next field of the current row is supplied to the Context; the first
\* field of a row fixes the row's value and its element order.
FeedShuffled ==
    /\ caller.done < MaxRows
    /\ \E o \in ElementOrders(n_elements), v \in Values :
         LET k == caller.at
             group == k <= n_groups
             pos == IF group THEN k ELSE o[k - n_groups]
             c == IF group THEN create_group(Ctx, v, pos)
                  ELSE apply_element(Ctx, v, pos)
             finished == k = n_groups + n_elements
         IN  /\ k = 1 \/ (o = caller.order /\ v = caller.val)
             /\ Store(c)
             /\ last' = [op |-> IF group THEN "create_group"
                                ELSE "apply_element",
                         value |-> v, pos |-> pos, exc |-> c.exc,
                         log |-> c.log]
             /\ caller' = [caller EXCEPT
                    !.order = o,
                    !.val = v,
                    !.at = IF finished THEN 1 ELSE k + 1,
                    !.done = IF finished THEN @ + 1 ELSE @,
                    !.src = IF group THEN @
                            ELSE [@ EXCEPT ![pos] = caller.done + 1],
                    !.fired = @ + Len(Events(c.log, "inserter")),
                    !.lasts = IF k = 1 THEN @ \cup {o[n_elements]} ELSE @]
    /\ calls' = calls + 1
    /\ UNCHANGED <<n_elements, n_groups>>

NextShuffled == FeedShuffled

SpecShuffled == InitShuffled /\ [][NextShuffled]_vars

\* Between two rows: every row fed so far is complete.
RowsComplete == caller.kind = "rows" /\ caller.at = 1

\* C1: whatever the order in which every row supplies its positions, after the
\* last row the output equals the nested-loop reference: each row's element
\* tuple inserted once, in row order, into the container of its key path.
C1_RowsMatchReference ==
    RowsComplete =>
        containers = Reference(Context(n_elements, n_groups).containers,
                               caller.rows)

(***************************************************************************)
(* One VectorPartial driven as test_vector_partial.py drives it: the        *)
(* aggregator is held in element_inserter, its arity is n_elements + 1,     *)
(* and the wrapped callable returns the tuple of its arguments (test_call). *)
(* caller remembers the slot an operation addressed as it was before the    *)
(* operation (old), the operation before it (before), the position of the  *)
(* first insert (first), and the positions inserted and not removed since   *)
(* (live), as added_ps does in test_insert.                                 *)
(***************************************************************************)
VPPositions == -1..(MaxElements + 2)

\* Slot pos of vp: its value and its fill bit; None for a position outside.
Slot(vp, pos) ==
    IF pos \in 1..vp.n_args
    THEN [value |-> vp.args[pos], filled |-> vp.filled[pos]]
    ELSE [value |-> None, filled |-> FALSE]

InitVP ==
    /\ n_elements \in 0..MaxElements
    /\ n_groups = 0
    /\ element_inserter = VectorPartial(n_elements + 1)
    /\ group_factory = VectorPartial(1)
    /\ containers = <<>>
    /\ last = [op |-> "init", value |-> None, pos |-> 0, exc |-> "none",
               log |-> <<>>]
    /\ calls = 0
    /\ caller = [kind |-> "vp", old |-> Slot(element_inserter, 0),
                 before |-> "init", first |-> 0, live |-> {}]

\* s.insert(value, pos=pos)
Insert ==
    /\ calls < MaxOps
    /\ \E value \in Values, pos \in VPPositions :
         LET r == insert(element_inserter, value, pos) IN
         /\ element_inserter' = r.vp
         /\ last' = [op |-> "insert", value |-> value, pos |-> pos,
                     exc |-> r.exc, log |-> <<>>]
         /\ caller' = [caller EXCEPT
                !.old = Slot(element_inserter, pos),
                !.before = last.op,
                !.first = IF @ = 0 /\ r.exc = "none" THEN pos ELSE @,
                !.live = IF r.exc = "none" THEN @ \cup {pos} ELSE @]
    /\ calls' = calls + 1
    /\ UNCHANGED <<n_elements, n_groups, group_factory, containers>>

\* s.remove(pos)
Remove ==
    /\ calls < MaxOps
    /\ \E pos \in VPPositions :
         LET r == remove(element_inserter, pos) IN
         /\ element_inserter' = r.vp
         /\ last' = [op |-> "remove", value |-> None, pos |-> pos,
                     exc |-> r.exc, log |-> <<>>]
         /\ caller' = [caller EXCEPT
                !.old = Slot(element_inserter, pos),
                !.before = last.op,
                !.live = IF r.exc = "none" THEN @ \ {pos} ELSE @]
    /\ calls' = calls + 1
    /\ UNCHANGED <<n_elements, n_groups, group_factory, containers>>

\* s(): the log holds the call of the wrapped callable, if it was called.
Invoke ==
    /\ calls < MaxOps
    /\ LET r == call(element_inserter) IN
         last' = [op |-> "call", value |-> None, pos |-> 0, exc |-> r.exc,
                  log |-> IF r.exc = "none"
                          THEN <<Call("callable", r.args, r.args)>>
                          ELSE <<>>]
    /\ caller' = [caller EXCEPT !.old = Slot(element_inserter, 0),
                                !.before = last.op]
    /\ calls' = calls + 1
    /\ UNCHANGED <<n_elements, n_groups, element_inserter, group_factory,
                   containers>>

NextVP == Insert \/ Remove \/ Invoke

SpecVP == InitVP /\ [][NextVP]_vars

(***************************************************************************)
(* The construction of one VectorPartial: a callable and an n_args are     *)
(* chosen, then the constructor is called once.  Until then, and after a   *)
(* failed construction, element_inserter holds no slot.                    *)
(***************************************************************************)
Funcs ==
    [args : 0..MaxArgs, defaults : 0..1, varargs : BOOLEAN,
     kwonly : 0..1, kwonlydefaults : 0..1, varkwargs : BOOLEAN]

NArgs == -1..(MaxArgs + 2)

InitNew ==
    /\ n_elements = 0
    /\ n_groups = 0
    /\ element_inserter = VectorPartial(0)
    /\ group_factory = VectorPartial(1)
    /\ containers = <<>>
    /\ last = [op |-> "init", value |-> None, pos |-> 0, exc |-> "none",
               log |-> <<>>]
    /\ calls = 0
    /\ \E f \in Funcs, n \in NArgs :
         caller = [kind |-> "new", f |-> f, n_args |-> n]

\* s = VectorPartial(f, n_args=n_args)
New ==
    /\ calls = 0
    /\ caller.kind = "new"
    /\ LET r == VectorPartial_init(caller.f, caller.n_args) IN
         /\ element_inserter' = r.vp
         /\ last' = [op |-> "new", value |-> None, pos |-> 0, exc |-> r.exc,
                     log |-> <<>>]
    /\ calls' = 1
    /\ UNCHANGED <<n_elements, n_groups, group_factory, containers, caller>>

NextNew == New

SpecNew == InitNew /\ [][NextNew]_vars

(***************************************************************************)
(* One node built as the tests build it: constructed, then given nodes by  *)
(* attach calls.  caller.node holds the node, if its construction          *)
(* succeeded.                                                              *)
(***************************************************************************)
\* The nodes handed to attach.
ArgNodes ==
    {Exclude(2, <<{2}>>, <<>>), Include(3, <<>>, <<{1}>>), Element(4, 1, <<>>)}

AttachArgs == UNION {[1..n -> ArgNodes] : n \in 0..MaxAttached}

InitBuild ==
    /\ n_elements = 1
    /\ n_groups = 0
    /\ element_inserter = Context(n_elements, n_groups).element_inserter
    /\ group_factory = Context(n_elements, n_groups).group_factory
    /\ containers = Context(n_elements, n_groups).containers
    /\ last = [op |-> "init", pos |-> 0, args |-> <<>>, exc |-> "none"]
    /\ calls = 0
    /\ caller = [kind |-> "build", node |-> <<>>]

Built(r, op, pos) ==
    /\ caller' = [caller EXCEPT !.node = r.node]
    /\ last' = [op |-> op, pos |-> pos, args |-> <<>>, exc |-> r.exc]
    /\ UNCHANGED <<n_elements, n_groups, element_inserter, group_factory,
                   containers, calls>>

\* Element(pos)
NewElement ==
    /\ last.op = "init"
    /\ \E pos \in -1..MaxElements : Built(new_Element(1, pos), "Element", pos)

\* Group(level)
NewGroup ==
    /\ last.op = "init"
    /\ \E level \in -1..MaxGroups :
         Built(new_Group(1, level, "none"), "Group", level)

\* PseudoRoot(), At(key="k"), FromList(), Include(), Exclude()
NewOther ==
    /\ last.op = "init"
    /\ \E node \in {PseudoRoot(1, <<>>), At(1, "k", <<>>),
                     FromList(1, <<>>, <<>>), Include(1, <<>>, <<>>),
                     Exclude(1, <<>>, <<>>)} :
         Built([node |-> <<node>>, exc |-> "none"], node.kind, 0)

\* node.attach(*args)
Attach ==
    /\ caller.node # <<>>
    /\ calls < MaxAttach
    /\ \E args \in AttachArgs :
         LET r == attach(caller.node[1], args) IN
         /\ caller' = [caller EXCEPT !.node = <<r.node>>]
         /\ last' = [op |-> "attach", pos |-> 0, args |-> args, exc |-> r.exc]
    /\ calls' = calls + 1
    /\ UNCHANGED <<n_elements, n_groups, element_inserter, group_factory,
                   containers>>

NextBuild == NewElement \/ NewGroup \/ NewOther \/ Attach

SpecBuild == InitBuild /\ [][NextBuild]_vars

(***************************************************************************)
(* Nodes driven as the tests drive them: one Context, and a fixed set of   *)
(* nodes whose process is called on one object after another.              *)
(***************************************************************************)
Scalars == 1..MaxObj
Odd == {v \in Scalars : v % 2 = 1}

\* Lists of at most MaxItems values of S.
Lists(S) == UNION {[1..n -> S] : n \in 0..MaxItems}

PlanNames ==
    {"elements", "groups", "filters", "branches", "one_group", "group_first",
     "filter_first", "filter_last", "shipment", "shipment_filtered",
     "lookups"}

ShipmentPlans == {"shipment", "shipment_filtered"}

\* test_element, test_element_with_exclude, test_element_with_include
ElementNodes ==
    <<Element(1, 1, <<Exclude(2, <<{2}>>, <<>>)>>),
      Element(3, 2, <<>>),
      Element(4, 1, <<Include(5, <<>>, <<Odd>>)>>)>>

\* test_group
GroupNodes ==
    <<Group(1, 1, "str", <<Include(2, <<{str(1), str(3)}>>, <<>>)>>),
      Group(3, 2, "none", <<Exclude(4, <<{2}>>, <<>>)>>),
      Group(5, 1, "str", <<>>),
      Element(6, 1, <<>>)>>

\* Include and Exclude with any_of and the predicate set or not.
FilterNodes ==
    <<Include(1, <<>>, <<>>),
      Include(2, <<{1, 2}>>, <<>>),
      Include(3, <<>>, <<Odd>>),
      Include(4, <<{1, 2}>>, <<Odd>>),
      Include(5, <<{1}>>, <<{1}>>),
      Exclude(6, <<>>, <<>>),
      Exclude(7, <<{1, 2}>>, <<>>),
      Exclude(8, <<>>, <<Odd>>),
      Exclude(9, <<{1, 2}>>, <<Odd>>),
      Exclude(10, <<{1}>>, <<{1}>>)>>

\* PseudoRoot and At with three children, and with none.
BranchNodes ==
    <<PseudoRoot(1, <<Exclude(2, <<{1}>>, <<>>), Exclude(3, <<{2}>>, <<>>),
                      Element(4, 1, <<>>)>>),
      At(5, "k", <<Include(6, <<>>, <<Odd>>), Exclude(7, <<{1}>>, <<>>),
                   Element(8, 1, <<>>)>>),
      PseudoRoot(9, <<>>),
      At(10, "k", <<>>)>>

\* test_one_group: Branch.at(key_elem).element(), Branch.at(key_group).group()
OneGroupRoot ==
    PseudoRoot(1, <<At(2, "e", <<Element(3, 1, <<>>)>>),
                    At(4, "g", <<Group(5, 1, "none", <<>>)>>)>>)

\* The same plan with the group branch declared first.
GroupFirstRoot ==
    PseudoRoot(1, <<At(4, "g", <<Group(5, 1, "none", <<>>)>>),
                    At(2, "e", <<Element(3, 1, <<>>)>>)>>)

\* One row per list item: element 1 filtered, element 2 not (the item
\* branches of test_many_groups), the filtered branch declared first.
FilterFirstRoot ==
    FromList(1, <<>>,
        <<At(2, "a", <<Element(3, 1, <<Exclude(4, <<{2}>>, <<>>)>>)>>),
          At(5, "b", <<Element(6, 2, <<>>)>>)>>)

\* The same branches, the filtered branch declared last as in test_many_groups.
FilterLastRoot ==
    FromList(1, <<>>,
        <<At(5, "b", <<Element(6, 2, <<>>)>>),
          At(2, "a", <<Element(3, 1, <<Exclude(4, <<{2}>>, <<>>)>>)>>)>>)

\* A collector plan: group by shipmentStore (level 1), and for every item
\* collect id (pos 1) and quantity (pos 2), quantity carrying the filter.
ShipmentRoot(filter) ==
    PseudoRoot(1,
        <<At(2, "shipmentStore", <<Group(3, 1, "none", <<>>)>>),
          FromList(4, <<"items">>,
              <<At(5, "id", <<Element(6, 1, <<>>)>>),
                At(7, "quantity", <<Element(8, 2, filter)>>)>>)>>)

\* invalidator = lambda quantity: quantity > 2
Over2 == {q \in 0..(2 * MaxKey) : q > 2}

\* The items of an order: one the filter rejects, one it lets pass.
Items == {[id |-> 7, quantity |-> 3], [id |-> 8, quantity |-> 2]}

ShipmentObjects ==
    {[shipmentStore |-> s, items |-> l] : s \in 0..1, l \in Lists(Items)}

\* test_from_list_with_key under a root, with a branch declared after it:
\* every item of obj["rows"] supplies elements 1 and 2, then obj["t"] is read.
LookupsRoot ==
    PseudoRoot(1,
        <<FromList(2, <<"rows">>,
              <<At(3, "a", <<Element(4, 1, <<>>)>>),
                At(5, "b", <<Element(6, 2, <<>>)>>)>>),
          At(7, "t", <<Exclude(8, <<>>, <<>>)>>)>>)

\* Items and objects with every key present, and with one key absent.
LookupItems == {[a |-> 1, b |-> 2], [a |-> 1], [b |-> 2]}

LookupObjects ==
    {[rows |-> l, t |-> 1] : l \in Lists(LookupItems)}
        \cup {[rows |-> l] : l \in Lists(LookupItems)}
        \cup {[t |-> 1]}

Plan(name) ==
    CASE name = "elements" ->
            [n_elements |-> 2, n_groups |-> 0, nodes |-> ElementNodes]
      [] name = "groups" ->
            [n_elements |-> 1, n_groups |-> 2, nodes |-> GroupNodes]
      [] name = "filters" ->
            [n_elements |-> 1, n_groups |-> 0, nodes |-> FilterNodes]
      [] name = "branches" ->
            [n_elements |-> 1, n_groups |-> 0, nodes |-> BranchNodes]
      [] name = "one_group" ->
            [n_elements |-> 1, n_groups |-> 1, nodes |-> <<OneGroupRoot>>]
      [] name = "group_first" ->
            [n_elements |-> 1, n_groups |-> 1, nodes |-> <<GroupFirstRoot>>]
      [] name = "filter_first" ->
            [n_elements |-> 2, n_groups |-> 0, nodes |-> <<FilterFirstRoot>>]
      [] name = "filter_last" ->
            [n_elements |-> 2, n_groups |-> 0, nodes |-> <<FilterLastRoot>>]
      [] name = "lookups" ->
            [n_elements |-> 2, n_groups |-> 0, nodes |-> <<LookupsRoot>>]
      [] name = "shipment" ->
            [n_elements |-> 2, n_groups |-> 1, nodes |-> <<ShipmentRoot(<<>>)>>]
      [] name = "shipment_filtered" ->
            [n_elements |-> 2, n_groups |-> 1,
             nodes |-> <<ShipmentRoot(<<Exclude(9, <<>>, <<Over2>>)>>)>>]

\* The objects a test hands to node i of a plan.
Inputs(name, i) ==
    CASE name \in {"elements", "groups", "filters"} -> Scalars
      [] name = "branches" ->
            IF Plan(name).nodes[i].kind = "PseudoRoot" THEN Scalars
            ELSE {[k |-> v] : v \in Scalars} \cup {[j |-> v] : v \in {1}}
      [] name \in {"one_group", "group_first"} ->
            {[e |-> v, g |-> k] : v \in 1..2, k \in 1..2}
      [] name \in {"filter_first", "filter_last"} ->
            Lists({[a |-> x, b |-> y] : x \in 1..2, y \in 1..2})
      [] name \in ShipmentPlans -> ShipmentObjects
      [] name = "lookups" -> LookupObjects

\* The plans a collector runs: one root, processed once per input object.
RootPlans ==
    {"one_group", "group_first", "filter_first", "filter_last", "lookups"}
        \cup ShipmentPlans
ListPlans == {"filter_first", "filter_last"}

Budget(name) ==
    IF name \in ListPlans \cup {"lookups"} THEN MaxLists
    ELSE IF name \in ShipmentPlans THEN MaxLists + 1
    ELSE MaxProcess

InitNodes ==
    /\ \E name \in PlanNames :
         /\ n_elements = Plan(name).n_elements
         /\ n_groups = Plan(name).n_groups
         /\ caller = [kind |-> "nodes", plan |-> name,
                      nodes |-> Plan(name).nodes, done |-> <<>>]
         \* done: the input objects a root plan has collected so far
    /\ element_inserter = Context(n_elements, n_groups).element_inserter
    /\ group_factory = Context(n_elements, n_groups).group_factory
    /\ containers = Context(n_elements, n_groups).containers
    /\ last = [op |-> "init", node |-> 0, obj |-> None, state |-> None,
               exc |-> "none", log |-> <<>>]
    /\ calls = 0

\* One call node.process(obj, context); an exception ends the run.
Process ==
    /\ calls < Budget(caller.plan)
    /\ last.exc = "none"
    /\ \E i \in DOMAIN caller.nodes :
         \E obj \in Inputs(caller.plan, i) :
            LET r == process(caller.nodes[i], obj, Ctx) IN
            /\ Store(r.c)
            /\ last' = [op |-> "process", node |-> i, obj |-> obj,
                        state |-> r.state, exc |-> r.c.exc, log |-> r.c.log]
            /\ caller' = [caller EXCEPT !.done =
                            IF caller.plan \in RootPlans THEN Append(@, obj)
                            ELSE @]
    /\ calls' = calls + 1
    /\ UNCHANGED <<n_elements, n_groups>>

NextNodes == Process

SpecNodes == InitNodes /\ [][NextNodes]_vars

(***************************************************************************)
(* One root whose process is called on one object after another by a       *)
(* caller that goes on after a REJECT and after an exception, with the     *)
(* same Context.  caller.outcomes keeps the State or the exception of      *)
(* every call made so far.                                                 *)
(***************************************************************************)
\* A group branch, an element branch, and an element branch with a filter.
ResumeRoot ==
    PseudoRoot(1,
        <<At(2, "g", <<Group(3, 1, "none", <<>>)>>),
          At(4, "a", <<Element(5, 1, <<>>)>>),
          At(6, "b", <<Element(7, 2, <<Exclude(8, <<{2}>>, <<>>)>>)>>)>>)

\* Objects with every key, without "b", and without "a" and "b".
ResumeObjects ==
    {[g |-> k, a |-> x, b |-> y] : k \in 1..2, x \in 1..2, y \in 1..2}
        \cup {[g |-> k, a |-> x] : k \in 1..2, x \in 1..2}
        \cup {[g |-> k] : k \in 1..2}

InitResume ==
    /\ n_elements = 2
    /\ n_groups = 1
    /\ caller = [kind |-> "resume", nodes |-> <<ResumeRoot>>, done |-> <<>>,
                 outcomes |-> <<>>]
    /\ element_inserter = Context(n_elements, n_groups).element_inserter
    /\ group_factory = Context(n_elements, n_groups).group_factory
    /\ containers = Context(n_elements, n_groups).containers
    /\ last = [op |-> "init", node |-> 0, obj |-> None, state |-> None,
               exc |-> "none", log |-> <<>>]
    /\ calls = 0

\* One call root.process(obj, context), whatever the call before it gave.
ProcessNext ==
    /\ calls < MaxProcess
    /\ \E obj \in ResumeObjects :
         LET r == process(caller.nodes[1], obj, Ctx) IN
         /\ Store(r.c)
         /\ last' = [op |-> "process", node |-> 1, obj |-> obj,
                     state |-> r.state, exc |-> r.c.exc, log |-> r.c.log]
         /\ caller' = [caller EXCEPT
                !.done = Append(@, obj),
                !.outcomes = Append(@, IF r.c.exc # "none" THEN r.c.exc
                                       ELSE IF r.state = REJECT THEN "REJECT"
                                       ELSE "SUCCESS")]
    /\ calls' = calls + 1
    /\ UNCHANGED <<n_elements, n_groups>>

NextResume == ProcessNext

SpecResume == InitResume /\ [][NextResume]_vars

(***************************************************************************)
(* Claims about Context.apply_element and Context.create_group.            *)
(***************************************************************************)
OtherSlotsFilled(vp, p) == \A i \in (1..vp.n_args) \ {p} : vp.filled[i]

SameOtherSlots(old, new, p) ==
    \A i \in (1..old.n_args) \ {p} :
        new.args[i] = old.args[i] /\ new.filled[i] = old.filled[i]

\* C4: apply_element(value, pos), 1 <= pos <= n_elements, writes value into
\* inserter slot pos+1; exactly when every inserter slot is then filled the
\* inserter is invoked once with the slot values in position order and slot
\* pos+1 alone becomes unfilled; every other inserter slot and the whole
\* group factory are unchanged.
C4_ApplyElementFrame ==
    [][(last'.op = "apply_element" /\ last'.pos \in 1..n_elements) =>
        LET p == last'.pos + 1
            given == [element_inserter.args EXCEPT ![p] = last'.value]
        IN  /\ last'.exc = "none"
            /\ element_inserter'.args = given
            /\ SameOtherSlots(element_inserter, element_inserter', p)
            /\ group_factory' = group_factory
            /\ IF OtherSlotsFilled(element_inserter, p)
               THEN /\ last'.log = <<Call("inserter", given, None)>>
                    /\ containers' = inserter(containers, given)
                    /\ ~element_inserter'.filled[p]
               ELSE /\ last'.log = <<>>
                    /\ containers' = containers
                    /\ element_inserter'.filled[p]]_vars

\* C4 witness: with two element slots, an apply_element call fired the
\* inserter while another element slot kept its value.
C4_Witness ==
    /\ last.op = "apply_element"
    /\ last.pos \in 1..n_elements
    /\ n_elements = 2
    /\ Len(last.log) = 1
    /\ ~element_inserter.filled[last.pos + 1]
    /\ \E i \in 2..3 : element_inserter.filled[i]

\* C5: create_group(key, pos), 1 <= pos <= n_groups, writes key into factory
\* slot pos+1; exactly when every factory slot is then filled the factory is
\* invoked once, slot pos+1 alone becomes unfilled and the returned container
\* overwrites inserter slot 1; otherwise inserter slot 1 is unchanged; inserter
\* slots 2..n_elements+1 keep their values and fill states in both cases.
C5_CreateGroupFrame ==
    [][(last'.op = "create_group" /\ last'.pos \in 1..n_groups) =>
        LET p == last'.pos + 1
            given == [group_factory.args EXCEPT ![p] = last'.value]
        IN  /\ last'.exc = "none"
            /\ group_factory'.args = given
            /\ SameOtherSlots(group_factory, group_factory', p)
            /\ SameOtherSlots(element_inserter, element_inserter', 1)
            /\ IF OtherSlotsFilled(group_factory, p)
               THEN /\ Len(last'.log) = 1
                    /\ last'.log[1].f = "group_factory"
                    /\ last'.log[1].args = given
                    /\ last'.log[1].ret \in DOMAIN containers'
                    /\ ~group_factory'.filled[p]
                    /\ element_inserter'.filled[1]
                    /\ element_inserter'.args[1] = last'.log[1].ret
               ELSE /\ last'.log = <<>>
                    /\ group_factory'.filled[p]
                    /\ element_inserter'.filled[1] = element_inserter.filled[1]
                    /\ element_inserter'.args[1] = element_inserter.args[1]]_vars

\* C5 witness: a create_group call fired the factory and replaced a container
\* that was already bound, while an element slot stayed filled.
C5_Witness ==
    /\ last.op = "create_group"
    /\ last.pos \in 1..n_groups
    /\ n_groups = 2
    /\ Len(last.log) = 1
    /\ ~group_factory.filled[last.pos + 1]
    /\ element_inserter.args[1] = last.log[1].ret
    /\ \E a \in DOMAIN containers : a # last.log[1].ret
    /\ element_inserter.filled[2]

(***************************************************************************)
(* Claims about the nodes.                                                 *)
(***************************************************************************)
\* The node whose process was called last, and what the log says of it.
LastNode == caller.nodes[last.node]

\* The process calls and the returns of the nodes whose id is in ids.
Starts(log, ids) ==
    SelectSeq(log, LAMBDA ev : ev.f = "process" /\ ev.args[1] \in ids)
Returns(log, ids) ==
    SelectSeq(log, LAMBDA ev : ev.f = "return" /\ ev.args[1] \in ids)

ChildIds(node) == {node.next_nodes[i].id : i \in DOMAIN node.next_nodes}

ContextUnchanged ==
    UNCHANGED <<element_inserter, group_factory, containers>>

\* The Context after the step is what method call c left.
ContextBecomes(c) ==
    /\ element_inserter' = c.element_inserter
    /\ group_factory' = c.group_factory
    /\ containers' = c.containers

\* C3: with the element branch declared before the group branch, every
\* object's element value ends in the leaf container of that object's own
\* group key, as in the nested-loop reference of test_one_group.
C3_ElementBeforeGroupMatchesReference ==
    (caller.kind = "nodes" /\ caller.plan = "one_group") =>
        containers =
            Reference(Context(n_elements, n_groups).containers,
                      [i \in DOMAIN caller.done |->
                          [keys |-> <<caller.done[i].g>>,
                           elems |-> <<caller.done[i].e>>]])

\* The item of the list being processed when event i of the log was made:
\* items start where the first child of the FromList node is called.
ItemAt(node, log, i) ==
    Cardinality({j \in 1..i : /\ log[j].f = "process"
                              /\ log[j].args[1] = node.next_nodes[1].id})

\* C2: under a FromList node, an item whose filtered element is rejected
\* contributes nothing, whichever branch carries the filter: the inserter is
\* not invoked while a rejected item is processed, and every invocation
\* receives the values of the item being processed and of no other item.
C2_RejectedItemContributesNothing ==
    (caller.kind = "nodes" /\ caller.plan \in ListPlans
        /\ last.op = "process") =>
        \A i \in DOMAIN last.log :
            last.log[i].f = "inserter" =>
                LET item == last.obj[ItemAt(LastNode, last.log, i)]
                IN  /\ item.a \notin {2}
                    /\ last.log[i].args = <<TopContainer, item.a, item.b>>

\* C6: a FromList node returns SUCCESS, and calls every child on every item,
\* item by item, whatever State a child returned before.
C6_FromListAbsorbsReject ==
    (caller.kind = "nodes" /\ last.op = "process"
        /\ LastNode.kind = "FromList" /\ last.exc = "none") =>
        LET n == Len(LastNode.next_nodes)
            starts == Starts(last.log, ChildIds(LastNode))
        IN  /\ last.state = SUCCESS
            /\ Len(starts) = Len(last.obj) * n
            /\ \A j \in DOMAIN starts :
                 starts[j].args =
                    <<LastNode.next_nodes[((j - 1) % n) + 1].id,
                      last.obj[((j - 1) \div n) + 1]>>

\* C6 witness: a child returned REJECT on the first item of a longer list and
\* was not the last child.
C6_Witness ==
    /\ caller.kind = "nodes" /\ last.op = "process"
    /\ caller.plan = "filter_first"
    /\ Len(last.obj) >= 2
    /\ Returns(last.log, ChildIds(LastNode))[1].ret = REJECT
    /\ last.state = SUCCESS

\* C7: a PseudoRoot or At node calls its children in declaration order, on
\* the same value, up to and including the first that returns REJECT, and
\* returns REJECT then; it returns SUCCESS when every child (or none) did.
C7_ShortCircuit ==
    (caller.kind = "nodes" /\ last.op = "process"
        /\ LastNode.kind \in {"PseudoRoot", "At"} /\ last.exc = "none") =>
        LET children == LastNode.next_nodes
            starts == Starts(last.log, ChildIds(LastNode))
            returns == Returns(last.log, ChildIds(LastNode))
            n == Len(returns)
            value == IF LastNode.kind = "At" THEN last.obj[LastNode.key[1]]
                     ELSE last.obj
        IN  /\ Len(starts) = n
            /\ n <= Len(children)
            /\ \A i \in 1..n :
                 /\ starts[i].args = <<children[i].id, value>>
                 /\ returns[i].args[1] = children[i].id
                 /\ i < n => returns[i].ret = SUCCESS
            /\ IF n > 0 /\ returns[n].ret = REJECT THEN last.state = REJECT
               ELSE n = Len(children) /\ last.state = SUCCESS

\* C7 witness: the second of three children returned REJECT.
C7_Witness ==
    /\ caller.kind = "nodes" /\ last.op = "process"
    /\ LastNode.kind \in {"PseudoRoot", "At"}
    /\ Len(LastNode.next_nodes) = 3
    /\ Len(Returns(last.log, ChildIds(LastNode))) = 2
    /\ last.state = REJECT

\* Whether the filter attached to the node called last returned REJECT.
FilterRejected(node, log) ==
    /\ node.next_node # <<>>
    /\ \E i \in DOMAIN log :
         /\ log[i].f = "return"
         /\ log[i].args[1] = node.next_node[1].id
         /\ log[i].ret = REJECT

\* C8: Element(pos).process(value, context) returns REJECT and leaves the
\* Context unchanged when its filter rejects value; otherwise it calls
\* apply_element(value, pos) exactly once and returns SUCCESS.
C8_ElementProcess ==
    [][(caller.kind = "nodes" /\ last'.op = "process"
          /\ caller.nodes[last'.node].kind = "Element") =>
        LET node == caller.nodes[last'.node]
            applied == Events(last'.log, "apply_element")
        IN  /\ node.next_node # <<>> =>
                 last'.log[2] =
                    Call("process", <<node.next_node[1].id, last'.obj>>, None)
            /\ IF FilterRejected(node, last'.log)
               THEN /\ last'.state = REJECT
                    /\ applied = <<>>
                    /\ ContextUnchanged
               ELSE /\ last'.state = SUCCESS
                    /\ applied =
                         <<Call("apply_element", <<last'.obj, node.pos>>, None)>>
                    /\ ContextBecomes(apply_element(Ctx, last'.obj, node.pos))
       ]_vars

\* C8 witness: both outcomes of a filtered Element happened in one run: a
\* value was inserted, and the last call was rejected.
C8_Witness ==
    /\ caller.kind = "nodes" /\ last.op = "process"
    /\ LastNode.kind = "Element"
    /\ FilterRejected(LastNode, last.log)
    /\ containers[TopContainer] # <<>>

\* C9: Group(level, factory).process(value, context) hands the projected
\* value factory(value) to its filter and to create_group; it returns REJECT
\* and leaves the Context unchanged when the filter rejects; otherwise it
\* calls create_group(projected value, level) exactly once and returns SUCCESS.
C9_GroupProcess ==
    [][(caller.kind = "nodes" /\ last'.op = "process"
          /\ caller.nodes[last'.node].kind = "Group") =>
        LET node == caller.nodes[last'.node]
            key == IF node.factory = "str" THEN str(last'.obj) ELSE last'.obj
            created == Events(last'.log, "create_group")
        IN  /\ node.next_node # <<>> =>
                 last'.log[2] =
                    Call("process", <<node.next_node[1].id, key>>, None)
            /\ IF FilterRejected(node, last'.log)
               THEN /\ last'.state = REJECT
                    /\ created = <<>>
                    /\ ContextUnchanged
               ELSE /\ last'.state = SUCCESS
                    /\ created =
                         <<Call("create_group", <<key, node.level>>, None)>>
                    /\ ContextBecomes(create_group(Ctx, key, node.level))
       ]_vars

\* C9 witness: a Group with a projection and a filter created a group under
\* the projected key.
C9_Witness ==
    /\ caller.kind = "nodes" /\ last.op = "process"
    /\ LastNode.kind = "Group"
    /\ LastNode.factory = "str" /\ LastNode.next_node # <<>>
    /\ last.state = SUCCESS
    /\ group_factory.args[LastNode.level + 1] = str(last.obj)
    /\ Events(last.log, "group_factory") # <<>>

\* C10: Include.process returns REJECT exactly when any_of is set and the
\* value is not in it, or validator is set and returns false for the value,
\* and SUCCESS otherwise; it never changes the Context.
C10_IncludeProcess ==
    [][(caller.kind = "nodes" /\ last'.op = "process"
          /\ caller.nodes[last'.node].kind = "Include") =>
        LET node == caller.nodes[last'.node]
            absent == node.any_of # <<>> /\ last'.obj \notin node.any_of[1]
            invalid == node.validator # <<>>
                        /\ last'.obj \notin node.validator[1]
        IN  /\ last'.exc = "none"
            /\ last'.state = IF absent \/ invalid THEN REJECT ELSE SUCCESS
            /\ ContextUnchanged
       ]_vars

\* C10 witness: an Include with both any_of and validator set rejected a
\* member of any_of because the validator returned false.
C10_Witness ==
    /\ caller.kind = "nodes" /\ last.op = "process"
    /\ LastNode.kind = "Include"
    /\ LastNode.any_of # <<>> /\ LastNode.validator # <<>>
    /\ last.obj \in LastNode.any_of[1]
    /\ last.obj \notin LastNode.validator[1]
    /\ last.state = REJECT

\* C11: Exclude.process returns REJECT exactly when any_of is set and the
\* value is in it, or invalidator is set and returns true for the value, and
\* SUCCESS otherwise (also when neither is set); it never changes the Context.
C11_ExcludeProcess ==
    [][(caller.kind = "nodes" /\ last'.op = "process"
          /\ caller.nodes[last'.node].kind = "Exclude") =>
        LET node == caller.nodes[last'.node]
            present == node.any_of # <<>> /\ last'.obj \in node.any_of[1]
            invalid == node.invalidator # <<>>
                        /\ last'.obj \in node.invalidator[1]
        IN  /\ last'.exc = "none"
            /\ last'.state = IF present \/ invalid THEN REJECT ELSE SUCCESS
            /\ ContextUnchanged
       ]_vars

\* C11 witness: an Exclude with both any_of and invalidator set rejected a
\* value outside any_of because the invalidator returned true.
C11_Witness ==
    /\ caller.kind = "nodes" /\ last.op = "process"
    /\ LastNode.kind = "Exclude"
    /\ LastNode.any_of # <<>> /\ LastNode.invalidator # <<>>
    /\ last.obj \notin LastNode.any_of[1]
    /\ last.obj \in LastNode.invalidator[1]
    /\ last.state = REJECT

\* What the shipment plan is to collect from the objects objs: every object's
\* group is created, and every item the filter lets pass is inserted as the
\* pair (id, quantity) into the container of its object's shipmentStore.
RECURSIVE CollectItems(_, _, _, _)
CollectItems(heap, a, items, rejected) ==
    IF items = <<>> THEN heap
    ELSE LET item == Head(items)
             next == IF item.quantity \in rejected THEN heap
                     ELSE inserter(heap, <<a, item.id, item.quantity>>)
         IN  CollectItems(next, a, Tail(items), rejected)

RECURSIVE Collected(_, _, _)
Collected(heap, objs, rejected) ==
    IF objs = <<>> THEN heap
    ELSE LET made == factory(heap, <<TopContainer, Head(objs).shipmentStore>>)
         IN  Collected(CollectItems(made.heap, made.ret, Head(objs).items,
                                    rejected),
                       Tail(objs), rejected)

\* C12: the plan that groups by shipmentStore and collects (id, quantity) per
\* item yields, for every group, the pairs of the items the quantity filter
\* lets pass, in order; a group all of whose items are rejected is present
\* with an empty container; without the filter every item is collected.
C12_FilteredGroupStaysEmpty ==
    (caller.kind = "nodes" /\ caller.plan \in ShipmentPlans) =>
        /\ last.exc = "none"
        /\ containers =
              Collected(Context(n_elements, n_groups).containers, caller.done,
                        IF caller.plan = "shipment_filtered" THEN Over2 ELSE {})

\* C12 witness: [{shipmentStore: 0, items: [{id: 7, quantity: 3}]}] under the
\* filter rejecting quantities > 2 left {0: []}.
C12_Witness ==
    /\ caller.kind = "nodes" /\ caller.plan = "shipment_filtered"
    /\ caller.done =
          <<[shipmentStore |-> 0, items |-> <<[id |-> 7, quantity |-> 3]>>]>>
    /\ containers = (Addr(<<0>>) :> <<>>)
    /\ Addr(<<0>>) # TopContainer

\* The rows an object is to contribute under a plan with one group level:
\* the key path and the element tuple of each.
RowsOf(plan, obj) ==
    IF plan \in ShipmentPlans
    THEN LET kept == SelectSeq(obj.items,
                        LAMBDA item : plan = "shipment_filtered"
                                        => item.quantity \notin Over2)
         IN  {[keys |-> <<obj.shipmentStore>>,
               elems |-> <<kept[i].id, kept[i].quantity>>] : i \in DOMAIN kept}
    ELSE {[keys |-> <<obj.g>>, elems |-> <<obj.e>>]}

Occurs(row, leaf) == \E k \in DOMAIN leaf : leaf[k] = row

\* Every container of the output is still there and has only grown.
Accumulates ==
    \A a \in DOMAIN containers :
        /\ a \in DOMAIN containers'
        /\ Len(containers[a]) <= Len(containers'[a])
        /\ SubSeq(containers'[a], 1, Len(containers[a])) = containers[a]

\* Rows of two objects with the same key path are in one leaf container.
SameLeaf ==
    \A i, j \in DOMAIN caller.done :
        i < j =>
            \A r \in RowsOf(caller.plan, caller.done[i]),
               q \in RowsOf(caller.plan, caller.done[j]) :
                r.keys = q.keys =>
                    \E a \in DOMAIN containers :
                        /\ Occurs(r.elems, containers[a])
                        /\ Occurs(q.elems, containers[a])

GroupedPlans == {"one_group", "group_first"} \cup ShipmentPlans

\* C13: over the objects processed against one Context the output only
\* accumulates (no container is dropped, none loses or changes an entry), and
\* a row of a later object with the key path of an earlier row is in the same
\* leaf container as that earlier row.
C13_OutputAccumulates ==
    [][(caller.kind = "nodes" /\ caller.plan \in GroupedPlans) =>
            Accumulates /\ SameLeaf']_vars

(***************************************************************************)
(* Claims about the positions handed to the Context.                       *)
(***************************************************************************)
ContextCall == last'.op \in {"apply_element", "create_group"}

\* C14: apply_element(value, pos) and create_group(key, pos) with pos = 0
\* fail with ValueError, and with pos < 0 with the aggregator's IndexError;
\* either way no callable is invoked and every slot of both aggregators and
\* the output are unchanged.
C14_NonPositivePosFails ==
    [][(ContextCall /\ last'.pos < 1) =>
        /\ last'.exc = IF last'.pos = 0 THEN "ValueError" ELSE "IndexError"
        /\ last'.log = <<>>
        /\ ContextUnchanged]_vars

\* C14 as stated: every pos < 1, zero or negative, fails with ValueError and
\* leaves every slot of both aggregators unchanged.
C14_NonPositivePosIsValueError ==
    [][(ContextCall /\ last'.pos < 1) =>
        /\ last'.exc = "ValueError"
        /\ ContextUnchanged]_vars

\* C14 witness: a call with a negative pos failed with IndexError on a
\* Context some of whose element and key slots were filled.
C14_Witness ==
    /\ last.op \in {"apply_element", "create_group"}
    /\ last.pos < 0
    /\ last.exc = "IndexError"
    /\ element_inserter.filled[2]
    /\ n_groups > 0 /\ group_factory.filled[2]

(***************************************************************************)
(* Claims about exceptions raised while a node is processed.               *)
(***************************************************************************)
Children(node) ==
    IF node.kind \in {"PseudoRoot", "At", "FromList"}
    THEN {node.next_nodes[i] : i \in DOMAIN node.next_nodes}
    ELSE IF node.kind \in {"Element", "Group"}
    THEN {node.next_node[i] : i \in DOMAIN node.next_node}
    ELSE {}

RECURSIVE Subtree(_)
Subtree(node) == {node} \cup UNION {Subtree(child) : child \in Children(node)}

\* The node of the driver's plan whose id is id.
NodeOf(id) ==
    CHOOSE n \in UNION {Subtree(caller.nodes[i]) : i \in DOMAIN caller.nodes} :
        n.id = id

\* Event ev is a process call on an At or keyed FromList node whose object
\* does not have the node's key.
LookupFails(ev) ==
    /\ ev.f = "process"
    /\ LET n == NodeOf(ev.args[1])
       IN  /\ n.kind \in {"At", "FromList"}
           /\ n.key # <<>>
           /\ n.key[1] \notin DOMAIN ev.args[2]

\* C15: a process call on an At or keyed FromList node whose object lacks the
\* key is the last thing that happens for the top-level object: no child,
\* sibling or further item is processed, no ancestor returns a State, and
\* the top-level call ends with that KeyError; no KeyError arises otherwise.
C15_LookupFailurePropagates ==
    (caller.kind = "nodes" /\ last.op = "process") =>
        /\ \A i \in DOMAIN last.log :
              LookupFails(last.log[i]) =>
                  /\ i = Len(last.log)
                  /\ last.exc = "KeyError"
                  /\ last.state = None
        /\ last.exc = "KeyError" => LookupFails(last.log[Len(last.log)])

\* C15 witness: under a PseudoRoot with a later branch, the second branch of
\* the second item of a list failed after earlier values were inserted.
C15_Witness ==
    /\ caller.kind = "nodes" /\ caller.plan = "lookups"
    /\ last.op = "process" /\ last.exc = "KeyError"
    /\ last.log[Len(last.log)].args[1] = 5
    /\ "t" \in DOMAIN last.obj
    /\ Len(last.obj.rows) = 2
    /\ containers[TopContainer] # <<>>
    /\ element_inserter.filled[2]

\* The positions of the Element nodes and the levels of the Group nodes of
\* the driver's plan are those the Context was built for.
PlanValidated ==
    \A i \in DOMAIN caller.nodes :
        \A n \in Subtree(caller.nodes[i]) :
            /\ n.kind = "Element" => n.pos \in 1..n_elements
            /\ n.kind = "Group" => n.level \in 1..n_groups

\* C16: with every Element position in 1..n_elements and every Group level
\* in 1..n_groups, on an input all of whose key lookups succeed, a process
\* call raises nothing: no slot outside [1, N] is indexed (IndexError) and
\* no aggregator is invoked with an unfilled slot (RuntimeError).
C16_NoMisuseErrors ==
    (caller.kind = "nodes" /\ PlanValidated /\ last.op = "process") =>
        /\ last.exc \notin {"IndexError", "RuntimeError", "ValueError"}
        /\ (\A i \in DOMAIN last.log : ~LookupFails(last.log[i])) =>
              last.exc = "none"

\* C16 witness: one process call on a validated plan invoked the group
\* factory and then the inserter, and raised nothing.
C16_Witness ==
    /\ caller.kind = "nodes" /\ PlanValidated
    /\ last.op = "process" /\ last.exc = "none"
    /\ Events(last.log, "group_factory") # <<>>
    /\ Events(last.log, "inserter") # <<>>
    /\ \E i \in 2..element_inserter.n_args : ~element_inserter.filled[i]

(***************************************************************************)
(* Claims about one VectorPartial.                                         *)
(***************************************************************************)
\* The step is operation op on the aggregator held in element_inserter.
VPStep(op) == caller.kind = "vp" /\ last'.op = op

SameSlots(old, new) == new.args = old.args /\ new.filled = old.filled

SameCounts(old, new) ==
    /\ missing_args(new) = missing_args(old)
    /\ can_return(new) = can_return(old)

\* C17: insert(value, pos) and remove(pos) with pos outside [1, N] fail with
\* IndexError and leave every slot value, every fill bit, missing_args and
\* can_return unchanged.
C17_OutOfRangeFails ==
    [][((VPStep("insert") \/ VPStep("remove"))
          /\ last'.pos \notin 1..element_inserter.n_args) =>
        /\ last'.exc = "IndexError"
        /\ SameSlots(element_inserter, element_inserter')
        /\ SameCounts(element_inserter, element_inserter')]_vars

\* C17 witness: an operation at position N + 1 failed on an aggregator with
\* a filled and an unfilled slot.
C17_Witness ==
    /\ caller.kind = "vp" /\ last.op \in {"insert", "remove"}
    /\ last.pos = element_inserter.n_args + 1
    /\ last.exc = "IndexError"
    /\ \E i, j \in 1..element_inserter.n_args :
          element_inserter.filled[i] /\ ~element_inserter.filled[j]

\* C18: invoking the aggregator while a slot is unfilled fails with
\* RuntimeError, does not call the wrapped callable and leaves the slots
\* unchanged, after any sequence of insert and remove operations.
C18_NotReadyFails ==
    [][(VPStep("call") /\ ~can_return(element_inserter)) =>
        /\ last'.exc = "RuntimeError"
        /\ last'.log = <<>>
        /\ SameSlots(element_inserter, element_inserter')]_vars

\* C18 witness: the invocation failed right after a remove had emptied the
\* only unfilled slot, whose value is still stored.
C18_Witness ==
    /\ caller.kind = "vp" /\ last.op = "call"
    /\ last.exc = "RuntimeError"
    /\ caller.before = "remove"
    /\ missing_args(element_inserter) = 1
    /\ \A i \in 1..element_inserter.n_args : element_inserter.args[i] # None

\* C19: with all N slots filled, invoking the aggregator calls the wrapped
\* callable once with the slot values in position order 1..N and returns its
\* result, whatever the order of the inserts; no slot value or fill bit
\* changes, so can_return still holds and a second invocation returns the
\* same.
C19_InvokeInPositionOrder ==
    [][/\ (VPStep("call") /\ can_return(element_inserter)) =>
            /\ last'.exc = "none"
            /\ last'.log = <<Call("callable", element_inserter.args,
                                  element_inserter.args)>>
            /\ \A i \in 1..element_inserter.n_args :
                  last'.log[1].ret[i] = element_inserter.args[i]
            /\ SameSlots(element_inserter, element_inserter')
            /\ can_return(element_inserter')
       /\ (VPStep("call") /\ last.op = "call" /\ last.exc = "none") =>
            last'.exc = "none" /\ last'.log = last.log]_vars

\* C19 witness: the last slot was inserted first, the slots hold different
\* values, and the aggregator was invoked twice in a row.
C19_Witness ==
    /\ caller.kind = "vp" /\ last.op = "call" /\ last.exc = "none"
    /\ caller.before = "call"
    /\ element_inserter.n_args >= 2
    /\ caller.first = element_inserter.n_args
    /\ element_inserter.args[1] # element_inserter.args[2]
    /\ last.log[1].ret = element_inserter.args

\* C20: insert(value, pos), pos in [1, N], makes value the content of slot
\* pos whatever the slot held, so of two inserts at one position only the
\* second value is live; on a slot that was already filled it changes neither
\* missing_args nor can_return.
C20_InsertOverwrites ==
    [][(VPStep("insert") /\ last'.pos \in 1..element_inserter.n_args) =>
        /\ last'.exc = "none"
        /\ element_inserter'.args[last'.pos] = last'.value
        /\ element_inserter'.filled[last'.pos]
        /\ SameOtherSlots(element_inserter, element_inserter', last'.pos)
        /\ element_inserter.filled[last'.pos] =>
              SameCounts(element_inserter, element_inserter')]_vars

\* C20 witness: an insert replaced a different value in a slot that was
\* filled, on an aggregator that could return before and after.
C20_Witness ==
    /\ caller.kind = "vp" /\ last.op = "insert" /\ last.exc = "none"
    /\ caller.old.filled
    /\ caller.old.value # last.value
    /\ element_inserter.args[last.pos] = last.value
    /\ can_return(element_inserter)
    /\ element_inserter.n_args >= 2

\* C21: missing_args drops by exactly 1 on an insert at an unfilled position,
\* rises by exactly 1 on a remove of a filled position, is unchanged by a
\* remove of an unfilled position, and no operation changes it by more than 1.
C21_MissingArgsStepsByOne ==
    [][caller.kind = "vp" =>
        LET before == missing_args(element_inserter)
            after == missing_args(element_inserter')
            inside == last'.pos \in 1..element_inserter.n_args
        IN  /\ after - before \in {-1, 0, 1}
            /\ (last'.op = "insert" /\ inside
                  /\ ~element_inserter.filled[last'.pos]) => after = before - 1
            /\ (last'.op = "remove" /\ inside
                  /\ element_inserter.filled[last'.pos]) => after = before + 1
            /\ (last'.op = "remove" /\ inside
                  /\ ~element_inserter.filled[last'.pos]) => after = before
       ]_vars

\* C21 witness: a remove of a filled slot on an aggregator of arity 3 whose
\* other slots are filled left exactly one slot missing.
C21_Witness ==
    /\ caller.kind = "vp" /\ last.op = "remove" /\ last.exc = "none"
    /\ caller.old.filled
    /\ element_inserter.n_args = 3
    /\ missing_args(element_inserter) = 1
    /\ \A i \in 1..3 : i # last.pos => element_inserter.filled[i]

\* C22: in every reachable state of an aggregator of arity N, missing_args
\* is the number of slots not inserted since construction or since their
\* last remove, so 0 <= missing_args <= N, and N right after construction;
\* can_return holds exactly when missing_args is 0.
C22_MissingArgsCountsUnfilled ==
    caller.kind = "vp" =>
        LET N == element_inserter.n_args IN
        /\ caller.live \subseteq 1..N
        /\ missing_args(element_inserter) = N - Cardinality(caller.live)
        /\ missing_args(element_inserter) \in 0..N
        /\ last.op = "init" => missing_args(element_inserter) = N
        /\ can_return(element_inserter) <=> missing_args(element_inserter) = 0

\* C22 witness: an aggregator of arity at least 2 can return again after a
\* slot was removed and inserted anew.
C22_Witness ==
    /\ caller.kind = "vp" /\ last.op = "insert" /\ last.exc = "none"
    /\ caller.before = "remove"
    /\ ~caller.old.filled /\ caller.old.value # None
    /\ element_inserter.n_args >= 2
    /\ can_return(element_inserter)

(***************************************************************************)
(* Claims about the construction of a VectorPartial.                       *)
(***************************************************************************)
Constructed == caller.kind = "new" /\ last.op = "new"

\* The callable can be called with exactly n positional arguments, counting
\* its named positional parameters, required or defaulted.
Fits(f, n) ==
    /\ f.kwonly = 0
    /\ \/ n = f.args + f.defaults
       \/ f.varargs /\ n >= f.args + f.defaults

C25_NonPositiveNodeFails ==
    caller.kind = "build" =>
        /\ (last.op \in {"Element", "Group"} /\ last.pos <= 0) =>
              last.exc = "ValueError" /\ caller.node = <<>>
        /\ \A i \in DOMAIN caller.node :
              /\ caller.node[i].kind = "Element" => caller.node[i].pos >= 1
              /\ caller.node[i].kind = "Group" => caller.node[i].level >= 1

\* C26: attach on an Include or Exclude fails and attaches nothing; attach on
\* an Element or Group sets the filter when given exactly one node, and
\* otherwise fails and leaves the node as it was; attach on a PseudoRoot, At
\* or FromList appends the given nodes, in argument order, after the children
\* the node has.
C26_Attach ==
    [][(caller.kind = "build" /\ last'.op = "attach") =>
        LET node == caller.node[1]
            after == caller'.node[1]
            args == last'.args
        IN  CASE node.kind \in {"Include", "Exclude"} ->
                    last'.exc # "none" /\ after = node
              [] node.kind \in {"Element", "Group"} ->
                    IF Len(args) = 1
                    THEN /\ last'.exc = "none"
                         /\ after = [node EXCEPT !.next_node = <<args[1]>>]
                    ELSE last'.exc # "none" /\ after = node
              [] node.kind \in {"PseudoRoot", "At", "FromList"} ->
                    /\ last'.exc = "none"
                    /\ after = [node EXCEPT !.next_nodes = @ \o args]
       ]_vars

\* C26 witness: an Element with a filter attached was handed two nodes; the
\* call failed and the filter is still the one attached before.
C26_Witness ==
    /\ caller.kind = "build" /\ last.op = "attach"
    /\ caller.node[1].kind = "Element"
    /\ Len(last.args) = 2
    /\ last.exc = "ValueError"
    /\ caller.node[1].next_node # <<>>
    /\ caller.node[1].next_node[1] # last.args[1]

(***************************************************************************)
(* Claims about slot 1 of the two aggregators of a Context.                *)
(***************************************************************************)
\* Slot 1 holds what the Context put there at construction.
Slot1Bound ==
    /\ n_groups > 0 =>
          group_factory.filled[1] /\ group_factory.args[1] = TopContainer
    /\ n_groups = 0 =>
          element_inserter.filled[1] /\ element_inserter.args[1] = TopContainer

\* Slot 1 of the group factory never changes; slot 1 of the element inserter
\* stays filled once it is, and changes only when the group factory is
\* invoked, to the container the factory returned.
Slot1Step ==
    LET made == Events(last'.log, "group_factory") IN
    /\ group_factory'.filled[1] = group_factory.filled[1]
    /\ group_factory'.args[1] = group_factory.args[1]
    /\ element_inserter.filled[1] => element_inserter'.filled[1]
    /\ IF made # <<>>
       THEN /\ element_inserter'.filled[1]
            /\ element_inserter'.args[1] = made[Len(made)].ret
            /\ made[Len(made)].ret \in DOMAIN containers'
       ELSE /\ element_inserter'.filled[1] = element_inserter.filled[1]
            /\ element_inserter'.args[1] = element_inserter.args[1]

\* C27: with n_groups > 0 group-factory slot 1 is always filled with the
\* top-level container; element-inserter slot 1, once filled, stays filled
\* and holds the top-level container (n_groups = 0) or the result of the
\* most recent group-factory invocation; no apply_element or create_group
\* call writes its value or key into slot 1 of either aggregator.
C27_Slot1HoldsContainer ==
    Slot1Bound /\ [][Slot1Bound' /\ Slot1Step]_vars

\* C27 witness: after a second group was made, an element went into the
\* container bound last.
C27_Witness ==
    /\ last.op = "apply_element" /\ last.pos >= 1 /\ last.exc = "none"
    /\ n_groups > 0
    /\ Cardinality(DOMAIN containers) >= 2
    /\ last.log # <<>>
    /\ last.log[1].args[1] = element_inserter.args[1]
    /\ element_inserter.args[1] # TopContainer
    /\ element_inserter.filled[1]

\* C28: with n_groups = 0 the group factory is never invoked and its slot 1
\* stays unfilled, the element inserter's slot 1 always holds the top-level
\* container, and with n_elements = 1 every apply_element(e, pos=1) inserts
\* e into the top-level container at once.
C28_NoGroups ==
    [][n_groups = 0 =>
        /\ ~group_factory.filled[1] /\ ~group_factory'.filled[1]
        /\ element_inserter.filled[1] /\ element_inserter'.filled[1]
        /\ element_inserter.args[1] = TopContainer
        /\ element_inserter'.args[1] = TopContainer
        /\ Events(last'.log, "group_factory") = <<>>
        /\ (n_elements = 1 /\ last'.op = "apply_element" /\ last'.pos = 1) =>
              /\ last'.exc = "none"
              /\ last'.log =
                    <<Call("inserter", <<TopContainer, last'.value>>, None)>>
              /\ containers' =
                    [containers EXCEPT
                        ![TopContainer] = Append(@, <<last'.value>>)]
       ]_vars

\* C28 witness: without groups and with one element position, the third of
\* three values applied is the third entry of the top-level container.
C28_Witness ==
    /\ n_groups = 0 /\ n_elements = 1
    /\ last.op = "apply_element" /\ last.pos = 1
    /\ Len(containers[TopContainer]) = 3
    /\ containers[TopContainer][3] = <<last.value>>
    /\ ~group_factory.filled[1]

\* The row whose field was supplied last.
CurrentRow == IF caller.at = 1 THEN caller.done ELSE caller.done + 1

\* Every element value of an inserter invocation was applied by the row that
\* triggers it, and between two rows there is one invocation per row.
RowIntact ==
    /\ Events(last.log, "inserter") # <<>> =>
          \A i \in 1..n_elements : caller.src[i] = CurrentRow
    /\ caller.at = 1 => caller.fired = caller.done

ElementSlotsFilled(vp) == \A i \in 2..vp.n_args : vp.filled[i]

RECURSIVE Replay(_, _)
Replay(c, log) ==
    IF log = <<>> THEN c
    ELSE LET ev == Head(log)
             c1 == IF ev.f = "apply_element"
                   THEN apply_element(c, ev.args[1], ev.args[2])
                   ELSE IF ev.f = "create_group"
                   THEN create_group(c, ev.args[1], ev.args[2])
                   ELSE c
         IN  Replay(c1, Tail(log))

\* C31: process rolls nothing back: whether the call returns SUCCESS or
\* REJECT or a key lookup raises, the Context it leaves is the Context it
\* found with every apply_element and create_group call of its nodes made
\* on it, and that Context is the one the next call starts from.
C31_NoRollback ==
    [][last'.op = "process" =>
        LET c == Replay(Ctx, last'.log) IN
        /\ element_inserter' = c.element_inserter
        /\ group_factory' = c.group_factory
        /\ containers' = c.containers]_vars

\* C31 witness: the first object was rejected by the filter of its last
\* branch after its group was created and its "a" applied; the second
\* raised KeyError right after its group was created.  The first object's
\* container and its "a" are still in the Context, next to the container
\* the second object bound.
C31_Witness ==
    /\ caller.kind = "resume"
    /\ caller.done = <<[g |-> 1, a |-> 1, b |-> 2], [g |-> 2]>>
    /\ caller.outcomes = <<"REJECT", "KeyError">>
    /\ DOMAIN containers = {Addr(<<1>>), Addr(<<2>>)}
    /\ element_inserter.filled[1] /\ element_inserter.args[1] = Addr(<<2>>)
    /\ element_inserter.filled[2] /\ element_inserter.args[2] = 1

\* The FromList nodes of the plan whose process was called during the last
\* top-level call.
FromListsCalled ==
    {n \in Subtree(LastNode) :
        n.kind = "FromList" /\ Starts(last.log, {n.id}) # <<>>}

\* The process calls and the returns of the children of node, in log order.
ChildEvents(node) ==
    SelectSeq(last.log,
              LAMBDA ev : ev.f \in {"process", "return"}
                          /\ ev.args[1] \in ChildIds(node))

\* The place in the log of the one process call on node.
StartAt(node) ==
    CHOOSE i \in DOMAIN last.log :
        last.log[i].f = "process" /\ last.log[i].args[1] = node.id

\* The sequence node iterates over when handed obj.
SequenceOf(node, obj) == IF node.key # <<>> THEN obj[node.key[1]] ELSE obj

\* C32: a FromList node hands the items of its sequence to its children in
\* sequence order, and each item to the children in declaration order; a
\* child has returned before the next child, or the next item, is started;
\* with a key the sequence is looked up once, before the first item.
C32_ItemsInOrder ==
    (caller.kind = "nodes" /\ last.op = "process") =>
        \A node \in FromListsCalled :
            LET start == StartAt(node)
                obj == last.log[start].args[2]
                keyed == node.key # <<>>
                found == ~keyed \/ node.key[1] \in DOMAIN obj
                n == Len(node.next_nodes)
                events == ChildEvents(node)
                lookups == Events(last.log, "getitem")
                mine == SelectSeq(lookups, LAMBDA ev : ev.args[1] = node.id)
            IN  /\ Len(Starts(last.log, {node.id})) = 1
                /\ Len(mine) = IF keyed /\ found THEN 1 ELSE 0
                /\ (keyed /\ found) =>
                      last.log[start + 1] =
                          Call("getitem", <<node.id, node.key[1]>>, None)
                /\ ~found => events = <<>>
                /\ found =>
                      LET items == SequenceOf(node, obj) IN
                      /\ last.exc = "none" => Len(events) = 2 * n * Len(items)
                      /\ \A j \in DOMAIN events :
                            LET m == (j + 1) \div 2
                                child == node.next_nodes[((m - 1) % n) + 1]
                                item == items[((m - 1) \div n) + 1]
                            IN  IF j % 2 = 1
                                THEN /\ events[j].f = "process"
                                     /\ events[j].args = <<child.id, item>>
                                ELSE /\ events[j].f = "return"
                                     /\ events[j].args = <<child.id>>

\* C32 witness: the keyed FromList node of a root was handed two items, the
\* filtered branch of the first returned REJECT, and both children were
\* called on the second item after it.
C32_Witness ==
    /\ caller.kind = "nodes" /\ caller.plan = "shipment_filtered"
    /\ last.op = "process" /\ last.exc = "none"
    /\ Len(last.obj.items) = 2
    /\ last.obj.items[1] # last.obj.items[2]
    /\ Len(Events(last.log, "getitem")) = 1
    /\ Len(ChildEvents(NodeOf(4))) = 8
    /\ ChildEvents(NodeOf(4))[4].ret = REJECT

(***************************************************************************)
(* process run call by call: the Python call stack of one top-level call   *)
(* node.process(obj, context) is caller.stack, one frame per process call  *)
(* that has not returned, the innermost last.  A frame holds the node, the *)
(* value it works on, the child it calls next (i), for a FromList node the *)
(* item it is at (k), and where it stands (pc): "enter" before the body,   *)
(* "loop" in it, "reject" when a child's REJECT is to be returned.         *)
(* caller.entered and caller.forwarded count, per node id, the process     *)
(* calls begun and the calls made by a parent; caller.start is the Context *)
(* the top-level call found.                                               *)
(***************************************************************************)
Frame(node, obj) == [node |-> node, obj |-> obj, pc |-> "enter", i |-> 1,
                     k |-> 1]

Top == caller.stack[Len(caller.stack)]

\* No node of the plans is called more often than a list has items; the
\* counters stop one above that.
Bump(counts, id) ==
    [counts EXCEPT ![id] = IF @ <= MaxItems THEN @ + 1 ELSE @]

\* The frame has a child to call: the loops of PseudoRoot, At and FromList,
\* and the next_node of Element and Group, which is called first.
HasNext(frame) ==
    CASE frame.node.kind \in {"PseudoRoot", "At"} ->
            frame.i <= Len(frame.node.next_nodes)
      [] frame.node.kind = "FromList" ->
            frame.k <= Len(frame.obj) /\ frame.node.next_nodes # <<>>
      [] frame.node.kind \in {"Element", "Group"} ->
            frame.i = 1 /\ frame.node.next_node # <<>>
      [] OTHER -> FALSE

NextChild(frame) ==
    IF frame.node.kind \in {"Element", "Group"} THEN frame.node.next_node[1]
    ELSE frame.node.next_nodes[frame.i]

NextValue(frame) ==
    IF frame.node.kind = "FromList" THEN frame.obj[frame.k] ELSE frame.obj

\* A slip: the frame stays at the child that has just returned SUCCESS.
deliver_stays(frame, state) ==
    IF state = REJECT /\ frame.node.kind # "FromList"
    THEN [frame EXCEPT !.pc = "reject"]
    ELSE frame

\* What a frame does with the State its child returned: PseudoRoot, At,
\* Element and Group return a REJECT, FromList discards it and goes on.
deliver(frame, state) ==
    IF state = REJECT /\ frame.node.kind # "FromList"
    THEN [frame EXCEPT !.pc = "reject"]
    ELSE IF frame.node.kind = "FromList" /\ frame.i = Len(frame.node.next_nodes)
    THEN [frame EXCEPT !.i = 1, !.k = @ + 1]
    ELSE [frame EXCEPT !.i = @ + 1]

\* What a frame with no child left to call does before it returns.
Outcome(frame, c) ==
    CASE frame.pc = "reject" -> Result(c, REJECT)
      [] frame.node.kind = "Element" ->
            LET c1 == apply_element(c, frame.obj, frame.node.pos)
            IN  Result(c1, IF c1.exc # "none" THEN None ELSE SUCCESS)
      [] frame.node.kind = "Group" ->
            LET c1 == create_group(c, frame.obj, frame.node.level)
            IN  Result(c1, IF c1.exc # "none" THEN None ELSE SUCCESS)
      [] frame.node.kind = "Include" -> process_Include(frame.node, frame.obj, c)
      [] frame.node.kind = "Exclude" -> process_Exclude(frame.node, frame.obj, c)
      [] OTHER -> Result(c, SUCCESS)

InitSteps ==
    /\ \E name \in PlanNames :
         /\ n_elements = Plan(name).n_elements
         /\ n_groups = Plan(name).n_groups
         /\ caller = [kind |-> "steps", plan |-> name,
                      nodes |-> Plan(name).nodes, stack |-> <<>>,
                      start |-> Context(n_elements, n_groups),
                      entered |-> <<>>, forwarded |-> <<>>]
    /\ element_inserter = Context(n_elements, n_groups).element_inserter
    /\ group_factory = Context(n_elements, n_groups).group_factory
    /\ containers = Context(n_elements, n_groups).containers
    /\ last = [op |-> "init", node |-> 0, obj |-> None, state |-> None,
               exc |-> "none", log |-> <<>>]
    /\ calls = 0

\* The exception exc leaves every frame; the top-level call is over.
Raised(exc) ==
    last' = [last EXCEPT !.op = "process", !.state = None, !.exc = exc]

\* The top-level call node.process(obj, context) is made.
Begin ==
    /\ calls = 0
    /\ \E i \in DOMAIN caller.nodes :
         \E obj \in Inputs(caller.plan, i) :
            LET ids == {n.id : n \in Subtree(caller.nodes[i])} IN
            /\ caller' = [caller EXCEPT
                   !.stack = <<Frame(caller.nodes[i], obj)>>,
                   !.start = Ctx,
                   !.entered = [id \in ids |-> 0],
                   !.forwarded = [id \in ids |-> 0]]
            /\ last' = [op |-> "begin", node |-> i, obj |-> obj,
                        state |-> None, exc |-> "none", log |-> <<>>]
    /\ calls' = calls + 1
    /\ UNCHANGED <<n_elements, n_groups, element_inserter, group_factory,
                   containers>>

\* The innermost call begins its body: At and a keyed FromList look their
\* key up, Group projects its key.
Enter ==
    /\ caller.stack # <<>>
    /\ Top.pc = "enter"
    /\ LET node == Top.node
           keyed == node.kind \in {"At", "FromList"} /\ node.key # <<>>
           got == IF keyed THEN getitem(Top.obj, node.key[1])
                  ELSE IF node.kind = "Group" /\ node.factory # "none"
                  THEN [value |-> project(node.factory, Top.obj),
                        exc |-> "none"]
                  ELSE [value |-> Top.obj, exc |-> "none"]
           seen == Bump(caller.entered, node.id)
       IN  IF got.exc # "none"
           THEN /\ caller' = [caller EXCEPT !.stack = <<>>, !.entered = seen]
                /\ Raised(got.exc)
           ELSE /\ caller' = [caller EXCEPT
                       !.stack[Len(caller.stack)] =
                           [Top EXCEPT !.obj = got.value, !.pc = "loop"],
                       !.entered = seen]
                /\ UNCHANGED last
    /\ UNCHANGED <<n_elements, n_groups, element_inserter, group_factory,
                   containers, calls>>

\* The innermost call calls its next child.
Descend ==
    /\ caller.stack # <<>>
    /\ Top.pc = "loop"
    /\ HasNext(Top)
    /\ caller' = [caller EXCEPT
           !.stack = Append(@, Frame(NextChild(Top), NextValue(Top))),
           !.forwarded = Bump(@, NextChild(Top).id)]
    /\ UNCHANGED <<n_elements, n_groups, element_inserter, group_factory,
                   containers, last, calls>>

\* The innermost call has no child left to call: it does what is left of
\* its body and returns its State to the frame below, or raises.
Leave ==
    /\ caller.stack # <<>>
    /\ Top.pc = "reject" \/ (Top.pc = "loop" /\ ~HasNext(Top))
    /\ LET r == Outcome(Top, Ctx)
           below == Len(caller.stack) - 1
           rest == SubSeq(caller.stack, 1, below)
       IN  /\ Store(r.c)
           /\ IF r.c.exc # "none"
              THEN /\ caller' = [caller EXCEPT !.stack = <<>>]
                   /\ Raised(r.c.exc)
              ELSE IF rest = <<>>
              THEN /\ caller' = [caller EXCEPT !.stack = <<>>]
                   /\ last' = [last EXCEPT !.op = "process", !.state = r.state]
              ELSE /\ caller' = [caller EXCEPT !.stack =
                          [rest EXCEPT ![below] = deliver(@, r.state)]]
                   /\ UNCHANGED last
    /\ UNCHANGED <<n_elements, n_groups, calls>>

NextSteps == Begin \/ Enter \/ Descend \/ Leave

SpecSteps == InitSteps /\ [][NextSteps]_vars

\* Python runs a call to its end: a step that can be taken is taken.
FairSteps == SpecSteps /\ WF_vars(Enter \/ Descend \/ Leave)

Running == caller.kind = "steps" /\ caller.stack # <<>>

Finished ==
    caller.kind = "steps" /\ caller.stack = <<>> /\ last.op = "process"

\* The top-level call ended as process says: same State or exception, same
\* Context, and every node was entered as often as process calls it.
EndsAsProcess ==
    LET root == caller.nodes[last.node]
        r == process(root, last.obj, caller.start)
    IN  /\ last.exc = r.c.exc
        /\ last.state = r.state
        /\ last.exc = "none" => last.state \in {SUCCESS, REJECT}
        /\ last.exc # "none" => last.state = None
        /\ element_inserter = r.c.element_inserter
        /\ group_factory = r.c.group_factory
        /\ containers = r.c.containers
        /\ caller.entered[root.id] = 1
        /\ \A id \in DOMAIN caller.entered :
              /\ caller.entered[id] = Len(Starts(r.c.log, {id}))
              /\ id # root.id => caller.entered[id] = caller.forwarded[id]

\* C33: a call to a node's process ends, with SUCCESS, REJECT or an error;
\* until then every node has been entered at most as often as its parent
\* called it, which is never more often than the longest list has items.
C33_Terminates ==
    /\ [](Running =>
            \A id \in DOMAIN caller.entered :
                /\ caller.entered[id] <= caller.forwarded[id] + 1
                /\ caller.entered[id] <= MaxItems)
    /\ [](Finished => EndsAsProcess)
    /\ Running ~> Finished

\* C33 witness: the call on a root over a keyed list of two items returned
\* SUCCESS after both children of the list were entered twice.
C33_Witness ==
    /\ Finished
    /\ caller.plan = "shipment_filtered"
    /\ last.state = SUCCESS
    /\ Len(last.obj.items) = MaxItems
    /\ caller.entered[5] = MaxItems /\ caller.entered[7] = MaxItems
    /\ caller.entered[4] = 1

====
